---- MODULE Spec2Model ----
(***************************************************************************)
(* A model of PyNite's BeamSegment (src/BeamSegment.py): one mathematically *)
(* continuous beam segment, its five closed-form evaluators and its six    *)
(* extrema queries.                                                        *)
(*                                                                         *)
(* Python numbers are modelled as exact reals.  Every value the code can   *)
(* produce from integer attributes lies in a real quadratic field: it is   *)
(* (a + b*sqrt(r)) / c with integers a, b, c and a square-free r (b = 0    *)
(* for a rational).  The only irrational step is the square root of the    *)
(* discriminant in MaxMoment / MinMoment.                                  *)
(*                                                                         *)
(* A Python value is a record [t, a, b, c, r]: t = "num" for a number,     *)
(* t = "None" for None.  An evaluation that raises is the same record with *)
(* t the name of the exception, so an outcome is a value or an exception.  *)
(***************************************************************************)
EXTENDS Integers, Sequences, FiniteSets, TLC

VARIABLES seg, ret, copy, segments, workers, render, vis

\* seg, ret, copy: one segment object, the last call made on it, and a copy of
\* the object taken after the client's last assignment.
\* segments, workers: the solver's published array of segments and the workers
\* that query it.  render: the progress of one RenderModel call.  vis: one
\* call of a function or constructor of Visualization.py and its progress.
vars == <<seg, ret, copy, segments, workers, render, vis>>

\* The variables the life cycle of one segment leaves alone.
others == <<segments, workers, render, vis>>

-----------------------------------------------------------------------------
(* Python values and outcomes.  A number is (a + b*sqrt(r)) / c with        *)
(* integers a, b, c, r, in lowest terms: c > 0, gcd(a, b, c) = 1, and r = 1 *)
(* when b = 0.                                                              *)

Abs(i) == IF i < 0 THEN -i ELSE i

Sgn(i) == IF i < 0 THEN -1 ELSE IF i > 0 THEN 1 ELSE 0

RECURSIVE Gcd(_, _)
Gcd(m, n) == IF n = 0 THEN m ELSE Gcd(n, m % n)

Num(a, b, c, r) ==
    LET g == Gcd(Gcd(Abs(a), Abs(b)), Abs(c))
        s == IF c < 0 THEN -1 ELSE 1
    IN  [t |-> "num", a |-> (s * a) \div g, b |-> (s * b) \div g,
         c |-> (s * c) \div g, r |-> IF b = 0 THEN 1 ELSE r]

I(i) == [t |-> "num", a |-> i, b |-> 0, c |-> 1, r |-> 1]

None == [t |-> "None", a |-> 0, b |-> 0, c |-> 1, r |-> 1]

Raise(e) == [t |-> e, a |-> 0, b |-> 0, c |-> 1, r |-> 1]

IsNum(v) == v.t = "num"

IsNone(v) == v.t = "None"

IsErr(v) == v.t \notin {"num", "None"}

\* Sign of the real number (a + b*sqrt(r)) / c.
Sign(x) ==
    IF x.b = 0 THEN Sgn(x.a)
    ELSE IF x.a = 0 \/ Sgn(x.a) = Sgn(x.b) THEN Sgn(x.b)
    ELSE IF x.a * x.a > x.b * x.b * x.r THEN Sgn(x.a) ELSE Sgn(x.b)

\* A binary arithmetic operator: Python evaluates the left operand, then the
\* right one, then applies the operator, which raises TypeError on None.
Arith(x, y, res) ==
    IF IsErr(x) THEN x
    ELSE IF IsErr(y) THEN y
    ELSE IF IsNone(x) \/ IsNone(y) THEN Raise("TypeError")
    ELSE res

\* The radicand two operands share (one of them may be rational).
Rad(x, y) == IF x.r = 1 THEN y.r ELSE x.r

Add(x, y) ==
    Arith(x, y, Num(x.a * y.c + y.a * x.c, x.b * y.c + y.b * x.c, x.c * y.c,
                    Rad(x, y)))

Sub(x, y) ==
    Arith(x, y, Num(x.a * y.c - y.a * x.c, x.b * y.c - y.b * x.c, x.c * y.c,
                    Rad(x, y)))

Neg(x) == Arith(x, x, [x EXCEPT !.a = -x.a, !.b = -x.b])

Mul(x, y) ==
    Arith(x, y, Num(x.a * y.a + x.b * y.b * Rad(x, y), x.a * y.b + x.b * y.a,
                    x.c * y.c, Rad(x, y)))

\* x / y: the code only ever divides by a rational, or a rational by the
\* square root of a rational (a magnitude).
Div(x, y) ==
    Arith(x, y, IF y.a = 0 /\ y.b = 0 THEN Raise("ZeroDivisionError")
                ELSE IF y.b = 0 THEN Num(x.a * y.c, x.b * y.c, x.c * y.a, x.r)
                ELSE Num(0, x.a * y.c, x.c * y.b * y.r, y.r))

RECURSIVE Pow(_, _)
Pow(x, n) == IF n = 1 THEN x ELSE Mul(Pow(x, n - 1), x)

\* The largest s with s*s dividing m (m > 0).
SquarePart(m) == CHOOSE s \in 1..m : /\ m % (s * s) = 0
                                      /\ \A u \in (s + 1)..m : m % (u * u) # 0

\* x ** 0.5 for a rational x = a/c >= 0: sqrt(a/c) = s*sqrt(k)/c, a*c = s*s*k.
Sqrt(x) ==
    Arith(x, x, IF x.a = 0 THEN I(0)
                ELSE LET s == SquarePart(x.a * x.c)
                     IN  IF s * s = x.a * x.c THEN Num(s, 0, x.c, 1)
                         ELSE Num(0, s, x.c, (x.a * x.c) \div (s * s)))

\* Comparisons of two numbers.
Lt(x, y) == IsNum(x) /\ IsNum(y) /\ Sign(Sub(x, y)) < 0

Le(x, y) == IsNum(x) /\ IsNum(y) /\ Sign(Sub(x, y)) <= 0

Eq(x, y) == IsNum(x) /\ IsNum(y) /\ Sign(Sub(x, y)) = 0

-----------------------------------------------------------------------------
(* The BeamSegment object: a mapping from attribute names to values.  The   *)
(* constructor binds twelve attributes to None; it does not bind L, which   *)
(* the evaluators read.                                                     *)

Attributes == {"x1", "x2", "w1", "w2", "p1", "p2", "V1", "M1", "P1",
               "theta1", "delta1", "EI"}

\* BeamSegment.__init__
NewSegment == [a \in Attributes |-> None]

\* self.<a>: AttributeError when the object has no such attribute.
Get(s, a) == IF a \in DOMAIN s THEN s[a] ELSE Raise("AttributeError")

\* obj.<a> = v
SetAttrOf(s, a, v) == [b \in DOMAIN s \cup {a} |-> IF b = a THEN v ELSE s[b]]

\* The outcome of evaluating the calls vals in order and then taking
\* max(...) of their values: the first exception raised, else the largest.
PyMax(vals) ==
    IF \E i \in DOMAIN vals : IsErr(vals[i])
    THEN vals[CHOOSE i \in DOMAIN vals :
                  IsErr(vals[i]) /\ \A j \in 1..(i - 1) : ~IsErr(vals[j])]
    ELSE vals[CHOOSE i \in DOMAIN vals : \A j \in DOMAIN vals : Le(vals[j], vals[i])]

\* The same with min(...).
PyMin(vals) ==
    IF \E i \in DOMAIN vals : IsErr(vals[i])
    THEN vals[CHOOSE i \in DOMAIN vals :
                  IsErr(vals[i]) /\ \A j \in 1..(i - 1) : ~IsErr(vals[j])]
    ELSE vals[CHOOSE i \in DOMAIN vals : \A j \in DOMAIN vals : Le(vals[i], vals[j])]

\* A faulty clamp, against which the range of the candidates is checked: a
\* root outside the segment is kept.
NoClamp(x, L) == x

\* if x < 0 or x > L: x = 0
Clamp(x, L) == IF Lt(x, I(0)) \/ Lt(L, x) THEN I(0) ELSE x

\* A faulty Length, against which the length property is checked: the
\* operands of the subtraction exchanged.
LengthReversed(s) == Sub(Get(s, "x1"), Get(s, "x2"))

Length(s) == Sub(Get(s, "x2"), Get(s, "x1"))

Shear(s, x) ==
    LET V1 == Get(s, "V1")
        w1 == Get(s, "w1")
        w2 == Get(s, "w2")
        L  == Get(s, "L")
    IN  IF IsErr(L) THEN L
        ELSE Sub(Sub(V1, Mul(Div(Sub(w2, w1), Mul(I(2), L)), Pow(x, 2))),
                 Mul(w1, x))

Moment(s, x) ==
    LET V1 == Get(s, "V1")
        M1 == Get(s, "M1")
        w1 == Get(s, "w1")
        w2 == Get(s, "w2")
        L  == Get(s, "L")
    IN  IF IsErr(L) THEN L
        ELSE Sub(Sub(Add(M1, Mul(V1, x)),
                     Mul(Div(Sub(w2, w1), Mul(I(6), L)), Pow(x, 3))),
                 Div(Mul(w1, Pow(x, 2)), I(2)))

Axial(s, x) ==
    LET P1 == Get(s, "P1")
        p1 == Get(s, "p1")
        p2 == Get(s, "p2")
        L  == Get(s, "L")
    IN  IF IsErr(L) THEN L
        ELSE Add(Add(P1, Mul(Div(Sub(p2, p1), Mul(I(2), L)), Pow(x, 2))),
                 Mul(p1, x))

\* A faulty Slope, against which the independence of the stored stiffness is
\* checked: it divides by self.EI instead of the argument EI.
SlopeByStoredEI(s, x, EI) ==
    LET V1 == Get(s, "V1")
        M1 == Get(s, "M1")
        w1 == Get(s, "w1")
        w2 == Get(s, "w2")
        theta1 == Get(s, "theta1")
        L  == Get(s, "L")
    IN  IF IsErr(L) THEN L
        ELSE Add(theta1,
                 Mul(Div(I(1), Get(s, "EI")),
                     Sub(Sub(Add(Mul(M1, x), Mul(Div(V1, I(2)), Pow(x, 2))),
                             Mul(Div(Sub(w2, w1), Mul(I(24), L)), Pow(x, 4))),
                         Mul(Div(w1, I(6)), Pow(x, 3)))))

Slope(s, x, EI) ==
    LET V1 == Get(s, "V1")
        M1 == Get(s, "M1")
        w1 == Get(s, "w1")
        w2 == Get(s, "w2")
        theta1 == Get(s, "theta1")
        L  == Get(s, "L")
    IN  IF IsErr(L) THEN L
        ELSE Add(theta1,
                 Mul(Div(I(1), EI),
                     Sub(Sub(Add(Mul(M1, x), Mul(Div(V1, I(2)), Pow(x, 2))),
                             Mul(Div(Sub(w2, w1), Mul(I(24), L)), Pow(x, 4))),
                         Mul(Div(w1, I(6)), Pow(x, 3)))))

Deflection(s, x, EI) ==
    LET V1 == Get(s, "V1")
        M1 == Get(s, "M1")
        w1 == Get(s, "w1")
        w2 == Get(s, "w2")
        theta1 == Get(s, "theta1")
        delta1 == Get(s, "delta1")
        L  == Get(s, "L")
    IN  IF IsErr(L) THEN L
        ELSE Add(Add(delta1, Mul(theta1, x)),
                 Mul(Div(I(1), EI),
                     Sub(Sub(Add(Mul(Div(M1, I(2)), Pow(x, 2)),
                                 Mul(Div(V1, I(6)), Pow(x, 3))),
                             Mul(Div(Sub(w2, w1), Mul(I(120), L)), Pow(x, 5))),
                         Mul(Div(w1, I(24)), Pow(x, 4)))))

-----------------------------------------------------------------------------
(* The extrema queries.  Each computes its own local L = self.x2 - self.x1  *)
(* and then calls the evaluator, which reads self.L.                        *)

MaxShear(s) ==
    LET w1 == Get(s, "w1")
        w2 == Get(s, "w2")
        L  == Sub(Get(s, "x2"), Get(s, "x1"))
        d  == Sub(w1, w2)
    IN  IF IsErr(L) THEN L
        ELSE IF IsErr(d) THEN d
        ELSE LET x1 == Clamp(IF Sign(d) = 0 THEN I(0) ELSE Div(Mul(w1, L), d), L)
                 x2 == I(0)
                 x3 == L
             IN  PyMax(<<Shear(s, x1), Shear(s, x2), Shear(s, x3)>>)

MinShear(s) ==
    LET w1 == Get(s, "w1")
        w2 == Get(s, "w2")
        L  == Sub(Get(s, "x2"), Get(s, "x1"))
        d  == Sub(w1, w2)
    IN  IF IsErr(L) THEN L
        ELSE IF IsErr(d) THEN d
        ELSE LET x1 == Clamp(IF Sign(d) = 0 THEN I(0) ELSE Div(Mul(w1, L), d), L)
                 x2 == I(0)
                 x3 == L
             IN  PyMin(<<Shear(s, x1), Shear(s, x2), Shear(s, x3)>>)

\* The two candidate locations <<x1, x2>> before clamping, from the
\* quadratic a*x^2 + b*x + c; an exception raised on the way is in x1.
MaxMomentLocs(a, b, c) ==
    IF Sign(a) = 0
    THEN IF Sign(b) # 0 THEN <<Div(Neg(c), b), I(0)>> ELSE <<I(0), I(0)>>
    ELSE LET disc == Sub(Pow(b, 2), Mul(Mul(I(4), a), c))
         IN  IF IsErr(disc) THEN <<disc, disc>>
             ELSE IF Sign(disc) < 0 THEN <<I(0), I(0)>>
             ELSE <<Div(Add(Neg(b), Sqrt(disc)), Mul(I(2), a)),
                    Div(Sub(Neg(b), Sqrt(disc)), Mul(I(2), a))>>

MaxMomentRoots(s) ==
    LET w1 == Get(s, "w1")
        w2 == Get(s, "w2")
        V1 == Get(s, "V1")
        L  == Sub(Get(s, "x2"), Get(s, "x1"))
        a  == Div(Sub(w1, w2), Mul(I(2), L))
    IN  IF IsErr(L) THEN <<L, L>>
        ELSE IF IsErr(a) THEN <<a, a>>
        ELSE MaxMomentLocs(a, Neg(w1), V1)

MaxMoment(s) ==
    LET L == Sub(Get(s, "x2"), Get(s, "x1"))
        r == MaxMomentRoots(s)
    IN  IF IsErr(r[1]) THEN r[1]
        ELSE LET x3 == I(0)
                 x4 == L
                 x1 == Clamp(r[1], L)
                 x2 == Clamp(r[2], L)
             IN  PyMax(<<Moment(s, x1), Moment(s, x2), Moment(s, x3), Moment(s, x4)>>)

\* The two candidate locations <<x1, x2>> before clamping, from the
\* quadratic a*x^2 + b*x + c; an exception raised on the way is in x1.
MinMomentLocs(a, b, c) ==
    IF Sign(a) = 0
    THEN IF Sign(b) # 0 THEN <<Div(Neg(c), b), I(0)>> ELSE <<I(0), I(0)>>
    ELSE LET disc == Sub(Pow(b, 2), Mul(Mul(I(4), a), c))
         IN  IF IsErr(disc) THEN <<disc, disc>>
             ELSE IF Sign(disc) < 0 THEN <<I(0), I(0)>>
             ELSE <<Div(Add(Neg(b), Sqrt(disc)), Mul(I(2), a)),
                    Div(Sub(Neg(b), Sqrt(disc)), Mul(I(2), a))>>

MinMomentRoots(s) ==
    LET w1 == Get(s, "w1")
        w2 == Get(s, "w2")
        V1 == Get(s, "V1")
        L  == Sub(Get(s, "x2"), Get(s, "x1"))
        a  == Div(Sub(w1, w2), Mul(I(2), L))
    IN  IF IsErr(L) THEN <<L, L>>
        ELSE IF IsErr(a) THEN <<a, a>>
        ELSE MinMomentLocs(a, Neg(w1), V1)

MinMoment(s) ==
    LET L == Sub(Get(s, "x2"), Get(s, "x1"))
        r == MinMomentRoots(s)
    IN  IF IsErr(r[1]) THEN r[1]
        ELSE LET x3 == I(0)
                 x4 == L
                 x1 == Clamp(r[1], L)
                 x2 == Clamp(r[2], L)
             IN  PyMin(<<Moment(s, x1), Moment(s, x2), Moment(s, x3), Moment(s, x4)>>)

MaxAxial(s) ==
    LET p1 == Get(s, "p1")
        p2 == Get(s, "p2")
        L  == Sub(Get(s, "x2"), Get(s, "x1"))
        d  == Sub(p1, p2)
    IN  IF IsErr(L) THEN L
        ELSE IF IsErr(d) THEN d
        ELSE LET x1 == Clamp(IF Sign(d) # 0 THEN Div(Mul(L, p1), d) ELSE I(0), L)
                 x2 == I(0)
                 x3 == L
             IN  PyMax(<<Axial(s, x1), Axial(s, x2), Axial(s, x3)>>)

MinAxial(s) ==
    LET p1 == Get(s, "p1")
        p2 == Get(s, "p2")
        L  == Sub(Get(s, "x2"), Get(s, "x1"))
        d  == Sub(p1, p2)
    IN  IF IsErr(L) THEN L
        ELSE IF IsErr(d) THEN d
        ELSE LET x1 == Clamp(IF Sign(d) # 0 THEN Div(Mul(L, p1), d) ELSE I(0), L)
                 x2 == I(0)
                 x3 == L
             IN  PyMin(<<Axial(s, x1), Axial(s, x2), Axial(s, x3)>>)

\* obj.<op>(...): the method table of the class.
Run(op, x, EI, s) ==
    CASE op = "Length" -> Length(s)
      [] op = "Shear" -> Shear(s, x)
      [] op = "Moment" -> Moment(s, x)
      [] op = "Axial" -> Axial(s, x)
      [] op = "Slope" -> Slope(s, x, EI)
      [] op = "Deflection" -> Deflection(s, x, EI)
      [] op = "MaxShear" -> MaxShear(s)
      [] op = "MinShear" -> MinShear(s)
      [] op = "MaxMoment" -> MaxMoment(s)
      [] op = "MinMoment" -> MinMoment(s)
      [] op = "MaxAxial" -> MaxAxial(s)
      [] op = "MinAxial" -> MinAxial(s)

\* The positions at which an extrema query calls its evaluator, in the order
\* of the calls, on a segment whose attributes are numbers with x2 > x1.
Locs(op, s) ==
    LET L == Sub(Get(s, "x2"), Get(s, "x1"))
    IN  CASE op \in {"MaxShear", "MinShear"} ->
                 <<Clamp(IF Sign(Sub(s["w1"], s["w2"])) = 0 THEN I(0)
                         ELSE Div(Mul(s["w1"], L), Sub(s["w1"], s["w2"])), L),
                   I(0), L>>
          [] op = "MaxMoment" ->
                 <<Clamp(MaxMomentRoots(s)[1], L), Clamp(MaxMomentRoots(s)[2], L), I(0), L>>
          [] op = "MinMoment" ->
                 <<Clamp(MinMomentRoots(s)[1], L), Clamp(MinMomentRoots(s)[2], L), I(0), L>>
          [] op \in {"MaxAxial", "MinAxial"} ->
                 <<Clamp(IF Sign(Sub(s["p1"], s["p2"])) # 0
                         THEN Div(Mul(L, s["p1"]), Sub(s["p1"], s["p2"])) ELSE I(0), L),
                   I(0), L>>

\* The evaluator an extrema query calls at the position x.
Evaluate(op, s, x) ==
    CASE op \in {"MaxShear", "MinShear"} -> Shear(s, x)
      [] op \in {"MaxMoment", "MinMoment"} -> Moment(s, x)
      [] op \in {"MaxAxial", "MinAxial"} -> Axial(s, x)

-----------------------------------------------------------------------------
(* Bounds of the model.                                                     *)

\* Positions x passed to the evaluators are 0 .. MaxPos.
MaxPos == 1

\* Stiffness arguments EI passed to Slope and Deflection are -MaxEI .. MaxEI.
MaxEI == 1

Positions == {I(i) : i \in 0..MaxPos}

Stiffnesses == {I(i) : i \in -MaxEI..MaxEI}

\* The attributes in the order the constructor declares them.
Order == <<"x1", "x2", "w1", "w2", "p1", "p2", "V1", "M1", "P1",
           "theta1", "delta1", "EI">>

\* The numbers a client binds to an attribute in the life cycle of one segment.
LifeVals(a) ==
    IF a = "x1" THEN {I(0), I(1)}
    ELSE IF a \in {"x2", "L"} THEN {I(1), I(2)}
    ELSE IF a \in {"w2", "p2"} THEN {I(-1), I(1)}
    ELSE {I(1)}

-----------------------------------------------------------------------------
(* The life cycle of one segment: it is constructed, a client (the solver)  *)
(* binds attributes one assignment at a time, and any method may be called  *)
(* at any moment.  ret is the last call: its name, arguments and outcome.   *)
(* The client is explored binding the twelve attributes in the order the    *)
(* constructor declares them (it may rebind a bound one), and binding L at  *)
(* any moment.                                                              *)

Call(op, x, EI, out) == [op |-> op, x |-> x, EI |-> EI, out |-> out]

\* No array is published, no worker runs and nothing is rendered.
Elsewhere ==
    /\ segments = <<>>
    /\ workers = <<>>
    /\ render = <<>>
    /\ vis = <<>>

Init ==
    /\ seg = NewSegment
    /\ copy = NewSegment
    /\ ret = Call("__init__", None, None, None)
    /\ Elsewhere

\* A faulty MaxMoment, against which the frame property is checked: it keeps
\* its candidate location in self.x1 (self.x1 = 0) instead of the local x1.
MaxMomentAssigningSelf ==
    /\ ret' = Call("MaxMoment", None, None, MaxMoment(seg))
    /\ seg' = SetAttrOf(seg, "x1", I(0))
    /\ UNCHANGED <<copy, others>>

\* obj.<a> = v, for one of the twelve attributes of the constructor.
SetAttr ==
    \E i \in 1..Len(Order) : \E v \in LifeVals(Order[i]) :
        /\ \A j \in 1..(i - 1) : ~IsNone(seg[Order[j]])
        /\ seg' = SetAttrOf(seg, Order[i], v)
        /\ copy' = SetAttrOf(seg, Order[i], v)
        /\ ret' = Call("setattr", None, None, None)
        /\ UNCHANGED others

\* obj.L = v: the class never binds L, so only a client can.
SetL ==
    \E v \in LifeVals("L") :
        /\ seg' = SetAttrOf(seg, "L", v)
        /\ copy' = SetAttrOf(seg, "L", v)
        /\ ret' = Call("setattr", None, None, None)
        /\ UNCHANGED others

CallLength ==
    /\ ret' = Call("Length", None, None, Length(seg))
    /\ UNCHANGED <<seg, copy, others>>

CallShear ==
    \E x \in Positions :
        /\ ret' = Call("Shear", x, None, Shear(seg, x))
        /\ UNCHANGED <<seg, copy, others>>

CallMoment ==
    \E x \in Positions :
        /\ ret' = Call("Moment", x, None, Moment(seg, x))
        /\ UNCHANGED <<seg, copy, others>>

CallAxial ==
    \E x \in Positions :
        /\ ret' = Call("Axial", x, None, Axial(seg, x))
        /\ UNCHANGED <<seg, copy, others>>

CallSlope ==
    \E x \in Positions : \E EI \in Stiffnesses :
        /\ ret' = Call("Slope", x, EI, Slope(seg, x, EI))
        /\ UNCHANGED <<seg, copy, others>>

CallDeflection ==
    \E x \in Positions : \E EI \in Stiffnesses :
        /\ ret' = Call("Deflection", x, EI, Deflection(seg, x, EI))
        /\ UNCHANGED <<seg, copy, others>>

CallMaxShear ==
    /\ ret' = Call("MaxShear", None, None, MaxShear(seg))
    /\ UNCHANGED <<seg, copy, others>>

CallMinShear ==
    /\ ret' = Call("MinShear", None, None, MinShear(seg))
    /\ UNCHANGED <<seg, copy, others>>

CallMaxMoment ==
    /\ ret' = Call("MaxMoment", None, None, MaxMoment(seg))
    /\ UNCHANGED <<seg, copy, others>>

CallMinMoment ==
    /\ ret' = Call("MinMoment", None, None, MinMoment(seg))
    /\ UNCHANGED <<seg, copy, others>>

CallMaxAxial ==
    /\ ret' = Call("MaxAxial", None, None, MaxAxial(seg))
    /\ UNCHANGED <<seg, copy, others>>

CallMinAxial ==
    /\ ret' = Call("MinAxial", None, None, MinAxial(seg))
    /\ UNCHANGED <<seg, copy, others>>

Queries ==
    \/ CallLength
    \/ CallShear
    \/ CallMoment
    \/ CallAxial
    \/ CallSlope
    \/ CallDeflection
    \/ CallMaxShear
    \/ CallMinShear
    \/ CallMaxMoment
    \/ CallMinMoment
    \/ CallMaxAxial
    \/ CallMinAxial

Next ==
    \/ SetAttr
    \/ SetL
    \/ Queries

Spec == Init /\ [][Next]_vars

-----------------------------------------------------------------------------
(* Populated segments.  The value specifications below start from a segment *)
(* whose attributes a client has bound, and then only call methods.  The    *)
(* attribute L is left unbound, bound to x2 - x1, or bound to another       *)
(* length.                                                                  *)

\* Distributed load intensities w1, w2, p1, p2 are -MaxLoad .. MaxLoad.
MaxLoad == 2

\* Boundary values V1, M1, P1 are -MaxForce .. MaxForce.
MaxForce == 2

\* Segment lengths x2 - x1 are 1 .. MaxLen.
MaxLen == 3

Loads == (-MaxLoad)..MaxLoad

Forces == (-MaxForce)..MaxForce

Spans == {<<x1, x1 + len>> : x1 \in 0..1, len \in 1..MaxLen}

LengthBindings == {"unbound", "derived", "other"}

\* The object after the assignments obj.x1 = ..., ..., obj.EI = ...
Bound(x, w1, w2, p1, p2, V1, M1, P1, theta1, delta1, EI) ==
    [a \in Attributes |->
        CASE a = "x1" -> I(x[1]) [] a = "x2" -> I(x[2])
          [] a = "w1" -> I(w1) [] a = "w2" -> I(w2)
          [] a = "p1" -> I(p1) [] a = "p2" -> I(p2)
          [] a = "V1" -> I(V1) [] a = "M1" -> I(M1) [] a = "P1" -> I(P1)
          [] a = "theta1" -> I(theta1) [] a = "delta1" -> I(delta1)
          [] a = "EI" -> I(EI)]

\* ... and, unless how = "unbound", obj.L = ...
WithL(s, how) ==
    IF how = "unbound" THEN s
    ELSE IF how = "derived" THEN SetAttrOf(s, "L", Length(s))
    ELSE SetAttrOf(s, "L", Add(Length(s), I(1)))

InitShear ==
    /\ \E x \in Spans, w1 \in Loads, w2 \in Loads, V1 \in Forces, how \in LengthBindings :
           seg = WithL(Bound(x, w1, w2, 0, 0, V1, 0, 0, 0, 0, 1), how)
    /\ copy = seg
    /\ ret = Call("setattr", None, None, None)
    /\ Elsewhere

NextShear == CallLength \/ CallShear \/ CallMaxShear \/ CallMinShear

SpecShear == InitShear /\ [][NextShear]_vars

InitMoment ==
    /\ \E x \in Spans, w1 \in Loads, w2 \in Loads, V1 \in Forces, M1 \in 0..1,
          how \in LengthBindings :
           seg = WithL(Bound(x, w1, w2, 0, 0, V1, M1, 0, 0, 0, 1), how)
    /\ copy = seg
    /\ ret = Call("setattr", None, None, None)
    /\ Elsewhere

NextMoment == CallMoment \/ CallMaxMoment \/ CallMinMoment

SpecMoment == InitMoment /\ [][NextMoment]_vars

InitAxial ==
    /\ \E x \in Spans, p1 \in Loads, p2 \in Loads, P1 \in Forces, how \in LengthBindings :
           seg = WithL(Bound(x, 0, 0, p1, p2, 0, 0, P1, 0, 0, 1), how)
    /\ copy = seg
    /\ ret = Call("setattr", None, None, None)
    /\ Elsewhere

NextAxial == CallAxial \/ CallMaxAxial \/ CallMinAxial

SpecAxial == InitAxial /\ [][NextAxial]_vars

InitDeform ==
    /\ \E x \in Spans, w1 \in -1..1, w2 \in -1..1, V1 \in -1..1, M1 \in 0..1,
          theta1 \in 0..1, delta1 \in 0..1, how \in LengthBindings :
           seg = WithL(Bound(x, w1, w2, 0, 0, V1, M1, 0, theta1, delta1, 1), how)
    /\ copy = seg
    /\ ret = Call("setattr", None, None, None)
    /\ Elsewhere

NextDeform == CallSlope \/ CallDeflection

SpecDeform == InitDeform /\ [][NextDeform]_vars

\* Segments for the extrema queries: the axial loads repeat the transverse
\* ones (p1 = w1, p2 = w2, P1 = V1), so that the three families of queries
\* meet the same variety of loads.
InitExtrema ==
    /\ \E len \in 1..MaxLen, w1 \in Loads, w2 \in Loads, V1 \in Forces,
          how \in LengthBindings :
           seg = WithL(Bound(<<1, 1 + len>>, w1, w2, w1, w2, V1, 0, V1, 0, 0, 1), how)
    /\ copy = seg
    /\ ret = Call("setattr", None, None, None)
    /\ Elsewhere

NextExtrema ==
    \/ CallMaxShear
    \/ CallMinShear
    \/ CallMaxMoment
    \/ CallMinMoment
    \/ CallMaxAxial
    \/ CallMinAxial

SpecExtrema == InitExtrema /\ [][NextExtrema]_vars

-----------------------------------------------------------------------------
(* Concurrent readers.  The solver publishes an array of populated segments *)
(* and workers then call methods on them with no coordination.  A method    *)
(* runs as a sequence of attribute reads self.<a>, each one step of its     *)
(* worker, followed by the arithmetic on the values read; steps of          *)
(* different workers interleave freely.  A worker keeps the values it has   *)
(* read in view, and alone is the outcome of the same call run with no      *)
(* other worker active.                                                     *)

Workers == {"A", "B"}

\* The methods the workers call.
WorkerOps == {"Length", "Shear", "Moment", "Axial", "MaxShear"}

\* The attribute reads self.<a> of a method, in program order; an extrema
\* query reads its own attributes and then calls its evaluator three times.
Reads(op) ==
    CASE op = "Length" -> <<"x2", "x1">>
      [] op = "Shear" -> <<"V1", "w1", "w2", "L">>
      [] op = "Moment" -> <<"V1", "M1", "w1", "w2", "L">>
      [] op = "Axial" -> <<"P1", "p1", "p2", "L">>
      [] op = "MaxShear" -> <<"w1", "w2", "x2", "x1", "V1", "w1", "w2", "L",
                              "V1", "w1", "w2", "L", "V1", "w1", "w2", "L">>

NoView == [a \in {} |-> None]

IdleWorker ==
    [pc |-> "idle", i |-> 0, op |-> "", x |-> None, n |-> 0, view |-> NoView,
     out |-> None, alone |-> None]

\* The published array: two valid segments, the attribute L bound on the
\* first and bound or not on the second.
InitWorkers ==
    /\ \E how \in {"unbound", "derived"} :
           segments = <<WithL(Bound(<<1, 2>>, 1, -1, 1, -1, 1, 1, 1, 0, 0, 1), "derived"),
                        WithL(Bound(<<1, 3>>, -1, 1, 0, 0, 1, 0, 1, 0, 0, 1), how)>>
    /\ workers = [w \in Workers |-> IdleWorker]
    /\ seg = NewSegment
    /\ copy = NewSegment
    /\ ret = Call("__init__", None, None, None)
    /\ render = <<>>
    /\ vis = <<>>

\* A faulty return, against which the concurrency property is checked: the
\* method leaves a value in the segment (self.x1 = 0) as it returns.
ReturnAssigningSelf(w) ==
    /\ workers[w].pc = "running"
    /\ workers[w].n = Len(Reads(workers[w].op))
    /\ workers' = [workers EXCEPT ![w].pc = "done",
                      ![w].out = Run(workers[w].op, workers[w].x, None, workers[w].view)]
    /\ segments' = [segments EXCEPT ![workers[w].i] = SetAttrOf(@, "x1", I(0))]
    /\ UNCHANGED <<seg, ret, copy, render, vis>>

\* Worker w calls segments[i].<op>(x).
Begin(w) ==
    \E i \in DOMAIN segments, op \in WorkerOps, x \in Positions :
        /\ workers[w].pc = "idle"
        /\ (op \in {"Length", "MaxShear"}) => x = I(0)
        /\ workers' = [workers EXCEPT ![w] =
                          [pc |-> "running", i |-> i, op |-> op, x |-> x, n |-> 0,
                           view |-> NoView, out |-> None,
                           alone |-> Run(op, x, None, segments[i])]]
        /\ UNCHANGED <<segments, seg, ret, copy, render, vis>>

\* The next attribute read self.<a> of the method worker w is running; the
\* read of an attribute the object does not have raises AttributeError.
Read(w) ==
    LET me == workers[w]
        a  == Reads(me.op)[me.n + 1]
    IN  /\ me.pc = "running"
        /\ me.n < Len(Reads(me.op))
        /\ workers' = [workers EXCEPT ![w] =
                          IF a \in DOMAIN segments[me.i]
                          THEN [me EXCEPT !.n = me.n + 1,
                                          !.view = SetAttrOf(me.view, a, segments[me.i][a])]
                          ELSE [me EXCEPT !.pc = "done",
                                          !.out = Run(me.op, me.x, None, me.view)]]
        /\ UNCHANGED <<segments, seg, ret, copy, render, vis>>

\* The method has read its attributes: it computes with them and returns.
Return(w) ==
    /\ workers[w].pc = "running"
    /\ workers[w].n = Len(Reads(workers[w].op))
    /\ workers' = [workers EXCEPT ![w].pc = "done",
                      ![w].out = Run(workers[w].op, workers[w].x, None, workers[w].view)]
    /\ UNCHANGED <<segments, seg, ret, copy, render, vis>>

\* The caller has the outcome; the worker is free for its next call.
Finish(w) ==
    /\ workers[w].pc = "done"
    /\ workers' = [workers EXCEPT ![w] = IdleWorker]
    /\ UNCHANGED <<segments, seg, ret, copy, render, vis>>

NextWorkers == \E w \in Workers : Begin(w) \/ Read(w) \/ Return(w) \/ Finish(w)

SpecWorkers == InitWorkers /\ [][NextWorkers]_vars

-----------------------------------------------------------------------------
(* RenderModel (src/PyNite/Visualization.py): one call, block by block.     *)
(* render holds the arguments of the call, the position reached in the      *)
(* function body, and made, the visual objects, VTK objects and helper      *)
(* calls made so far in program order.  A name (combo_name, case) is a      *)
(* Python string or None; PyNone stands for None.                           *)

PyNone == "None"

\* A model has at most MaxNodes nodes and MaxMembers members.
MaxNodes == 1

MaxMembers == 1

Models ==
    {[Nodes |-> n, auxNodes |-> 0, Springs |-> 0, Members |-> m, Plates |-> 0] :
        n \in 0..MaxNodes, m \in 0..MaxMembers}

ComboNames == {PyNone, "Combo 1"}

CaseNames == {PyNone, "Case 1"}

\* k objects of one class, made by a for loop over a list of the model.
Repeat(name, k) == [i \in 1..k |-> name]

NotRendering ==
    [pc |-> "idle", model |-> CHOOSE m \in Models : TRUE, deformed_shape |-> FALSE,
     render_loads |-> TRUE, combo_name |-> "Combo 1", case |-> PyNone,
     made |-> <<>>, exc |-> PyNone]

InitRender ==
    /\ render = NotRendering
    /\ seg = NewSegment
    /\ copy = NewSegment
    /\ ret = Call("__init__", None, None, None)
    /\ segments = <<>>
    /\ workers = <<>>
    /\ vis = <<>>

\* A faulty validation, against which the validation property is checked:
\* "or" for "and".
ValidateEither ==
    /\ render.pc = "validate"
    /\ render' = IF render.deformed_shape = TRUE \/ render.case # PyNone
                  THEN [render EXCEPT !.pc = "raised", !.exc = "Exception"]
                  ELSE [render EXCEPT !.pc = "visuals"]
    /\ UNCHANGED <<seg, ret, copy, segments, workers, vis>>

\* RenderModel(model, deformed_shape=..., render_loads=..., combo_name=...,
\* case=...) is called.
CallRenderModel ==
    \E m \in Models, d \in BOOLEAN, l \in BOOLEAN, combo \in ComboNames, case \in CaseNames :
        /\ render.pc = "idle"
        /\ render' = [pc |-> "validate", model |-> m, deformed_shape |-> d,
                      render_loads |-> l, combo_name |-> combo, case |-> case,
                      made |-> <<>>, exc |-> PyNone]
        /\ UNCHANGED <<seg, ret, copy, segments, workers, vis>>

\* if deformed_shape == True and case != None: raise Exception(...)
Validate ==
    /\ render.pc = "validate"
    /\ render' = IF render.deformed_shape = TRUE /\ render.case # PyNone
                  THEN [render EXCEPT !.pc = "raised", !.exc = "Exception"]
                  ELSE [render EXCEPT !.pc = "visuals"]
    /\ UNCHANGED <<seg, ret, copy, segments, workers, vis>>

\* The five loops that create the visual objects of the model.
CreateVisuals ==
    /\ render.pc = "visuals"
    /\ render' = [render EXCEPT
           !.pc = "window",
           !.made = @ \o Repeat("VisNode", render.model.Nodes)
                      \o Repeat("VisNode", render.model.auxNodes)
                      \o Repeat("VisSpring", render.model.Springs)
                      \o Repeat("VisMember", render.model.Members)
                      \o Repeat("VisPlate", render.model.Plates)]
    /\ UNCHANGED <<seg, ret, copy, segments, workers, vis>>

\* The window, the interactor with its style, and the renderer.
CreateWindow ==
    /\ render.pc = "window"
    /\ render' = [render EXCEPT
           !.pc = "actors",
           !.made = @ \o <<"vtkRenderWindow", "vtkRenderWindowInteractor",
                           "vtkInteractorStyleTrackballCamera", "vtkRenderer">>]
    /\ UNCHANGED <<seg, ret, copy, segments, workers, vis>>

\* The loops that add the actors of the visual objects to the renderer.
AddActors ==
    /\ render.pc = "actors"
    /\ render' = [render EXCEPT !.pc = "deformed"]
    /\ UNCHANGED <<seg, ret, copy, segments, workers, vis>>

\* if deformed_shape == True: __DeformedShape(...)
RenderDeformed ==
    /\ render.pc = "deformed"
    /\ render' = [render EXCEPT
           !.pc = "loads",
           !.made = IF render.deformed_shape = TRUE THEN @ \o <<"__DeformedShape">> ELSE @]
    /\ UNCHANGED <<seg, ret, copy, segments, workers, vis>>

\* if combo_name != None or case != None: __RenderLoads(...)
RenderLoads ==
    /\ render.pc = "loads"
    /\ render' = [render EXCEPT
           !.pc = "show",
           !.made = IF render.combo_name # PyNone \/ render.case # PyNone
                    THEN @ \o <<"__RenderLoads">> ELSE @]
    /\ UNCHANGED <<seg, ret, copy, segments, workers, vis>>

\* The background, the camera, window.Render() and interactor.Start().
Show ==
    /\ render.pc = "show"
    /\ render' = [render EXCEPT !.pc = "done"]
    /\ UNCHANGED <<seg, ret, copy, segments, workers, vis>>

NextRender ==
    \/ CallRenderModel
    \/ Validate
    \/ CreateVisuals
    \/ CreateWindow
    \/ AddActors
    \/ RenderDeformed
    \/ RenderLoads
    \/ Show

SpecRender == InitRender /\ [][NextRender]_vars

-----------------------------------------------------------------------------
(* The visual objects and helpers of src/PyNite/Visualization.py, one call  *)
(* at a time.  vis holds the function called (fn), the position reached in  *)
(* its body (pc), its arguments, and what it has built or computed so far.  *)

NoCall == [fn |-> "", pc |-> "idle"]

InitVis ==
    /\ vis = NoCall
    /\ seg = NewSegment
    /\ copy = NewSegment
    /\ ret = Call("__init__", None, None, None)
    /\ segments = <<>>
    /\ workers = <<>>
    /\ render = <<>>

\* The call has returned or raised; the caller makes its next call.
ReturnVis ==
    /\ vis.pc \in {"done", "raised"}
    /\ vis' = NoCall
    /\ UNCHANGED <<seg, ret, copy, segments, workers, render>>

(* VisNode.__init__: the sphere and the label of a node, then its supports. *)

Directions == <<"DX", "DY", "DZ", "RX", "RY", "RZ">>

\* The nodes: every combination of the six support flags.
SupportFlags == [{Directions[k] : k \in DOMAIN Directions} -> BOOLEAN]

\* if node.SupportDX == True and ... and node.SupportRZ == True:
FixedTest(node) ==
    /\ node["DX"] = TRUE /\ node["DY"] = TRUE /\ node["DZ"] = TRUE
    /\ node["RX"] = TRUE /\ node["RY"] = TRUE /\ node["RZ"] = TRUE

\* A pinned-support test that looks at the translations only and wants the
\* rotations free, against which the reachability of the branch is checked.
PinnedTestTranslations(node) ==
    /\ node["DX"] = TRUE /\ node["DY"] = TRUE /\ node["DZ"] = TRUE
    /\ node["RX"] = FALSE /\ node["RY"] = FALSE /\ node["RZ"] = FALSE

\* elif node.SupportDX == True and ... and node.SupportRZ == True:
PinnedTest(node) ==
    /\ node["DX"] = TRUE /\ node["DY"] = TRUE /\ node["DZ"] = TRUE
    /\ node["RX"] = TRUE /\ node["RY"] = TRUE /\ node["RZ"] = TRUE

\* The sources of one restrained direction: a line and two cones for a
\* translation, a line and two cubes for a rotation.
DirectionSymbol(d) ==
    IF d \in {"DX", "DY", "DZ"}
    THEN <<"vtkLineSource", "vtkConeSource", "vtkConeSource">>
    ELSE <<"vtkLineSource", "vtkCubeSource", "vtkCubeSource">>

\* The else branch: one if per direction, from direction k on.
RECURSIVE DirectionSymbols(_, _)
DirectionSymbols(node, k) ==
    IF k > Len(Directions) THEN <<>>
    ELSE (IF node[Directions[k]] = TRUE THEN DirectionSymbol(Directions[k]) ELSE <<>>)
             \o DirectionSymbols(node, k + 1)

\* VisNode(node): the append filter, the sphere and the label.
CallVisNode ==
    \E node \in SupportFlags :
        /\ vis.pc = "idle"
        /\ vis' = [fn |-> "VisNode", pc |-> "supports", node |-> node, branch |-> PyNone,
                   made |-> <<"vtkAppendPolyData", "vtkSphereSource", "vtkVectorText",
                              "vtkFollower">>]
        /\ UNCHANGED <<seg, ret, copy, segments, workers, render>>

\* The if / elif / else on the support flags.
VisNodeSupports ==
    /\ vis.fn = "VisNode" /\ vis.pc = "supports"
    /\ vis' = IF FixedTest(vis.node)
               THEN [vis EXCEPT !.pc = "actor", !.branch = "fixed",
                                !.made = @ \o <<"vtkCubeSource">>]
               ELSE IF PinnedTest(vis.node)
               THEN [vis EXCEPT !.pc = "actor", !.branch = "pinned"]
               ELSE [vis EXCEPT !.pc = "actor", !.branch = "other",
                                !.made = @ \o DirectionSymbols(vis.node, 1)]
    /\ UNCHANGED <<seg, ret, copy, segments, workers, render>>

\* The mapper and the actor of the node.
VisNodeActor ==
    /\ vis.fn = "VisNode" /\ vis.pc = "actor"
    /\ vis' = [vis EXCEPT !.pc = "done", !.made = @ \o <<"vtkPolyDataMapper", "vtkActor">>]
    /\ UNCHANGED <<seg, ret, copy, segments, workers, render>>

(* UnitVector and PerpVector.  A vector is a sequence of three numbers.     *)

\* The components of the vectors the helpers are called with.
MaxComp == 2

Vectors == {<<I(i), I(j), I(k)>> : i \in -MaxComp..MaxComp, j \in -MaxComp..MaxComp,
                                   k \in -MaxComp..MaxComp}

\* UnitVector(v): mag = (i**2 + j**2 + k**2)**0.5, then [i/mag, j/mag, k/mag].
Magnitude(v) == Sqrt(Add(Add(Mul(v[1], v[1]), Mul(v[2], v[2])), Mul(v[3], v[3])))

UnitVector(v) == <<Div(v[1], Magnitude(v)), Div(v[2], Magnitude(v)), Div(v[3], Magnitude(v))>>

\* A faulty last branch, against which perpendicularity is checked: the sign
\* of k2 is dropped.
PerpendicularUnsigned(v) ==
    IF Eq(v[1], I(0)) THEN <<I(1), I(0), I(0)>>
    ELSE IF Eq(v[2], I(0)) THEN <<I(0), I(1), I(0)>>
    ELSE IF Eq(v[3], I(0)) THEN <<I(0), I(0), I(1)>>
    ELSE <<I(1), I(1), Div(Add(Mul(v[1], I(1)), Mul(v[2], I(1))), v[3])>>

\* PerpVector(v): the vector [i2, j2, k2] of the if / elif / elif / else.
Perpendicular(v) ==
    IF Eq(v[1], I(0)) THEN <<I(1), I(0), I(0)>>
    ELSE IF Eq(v[2], I(0)) THEN <<I(0), I(1), I(0)>>
    ELSE IF Eq(v[3], I(0)) THEN <<I(0), I(0), I(1)>>
    ELSE <<I(1), I(1), Div(Neg(Add(Mul(v[1], I(1)), Mul(v[2], I(1)))), v[3])>>

\* PerpVector(v) is called and builds its vector.
CallPerpVector ==
    \E v \in Vectors :
        /\ vis.pc = "idle"
        /\ vis' = [fn |-> "PerpVector", pc |-> "unit", v |-> v, built |-> Perpendicular(v),
                   out |-> <<>>]
        /\ UNCHANGED <<seg, ret, copy, segments, workers, render>>

\* return UnitVector([i2, j2, k2])
PerpVectorReturn ==
    /\ vis.fn = "PerpVector" /\ vis.pc = "unit"
    /\ vis' = [vis EXCEPT !.pc = "done", !.out = UnitVector(vis.built)]
    /\ UNCHANGED <<seg, ret, copy, segments, workers, render>>

(* VisDeformedMember.__init__: three loops sample the member's deflection   *)
(* in its local y, z and x directions, the rows are summed into D_plot and  *)
(* D_plot becomes the points of a polyline.  member.Deflection is code of   *)
(* the member, not of this class: a row of a plot is kept as the position   *)
(* the loop passed to it.                                                   *)

\* for i in range(20):
SamplePoints == 20

\* member.Deflection(..., L/19*i, combo_name)
SampleIntervals == 19

\* The members: L = member.L() is 1..MaxSpan.
MaxSpan == 2

\* A faulty position, against which the sampling is checked: L/20*i.
PositionByPoints(L, i) == Mul(Div(L, I(SamplePoints)), I(i))

\* L/19*i
SamplePosition(L, i) == Mul(Div(L, I(SampleIntervals)), I(i))

\* VisDeformedMember(member, nodes, scale_factor, text_height, combo_name):
\* the length, the direction cosines and the position of the i-node.
CallVisDeformedMember ==
    \E L \in 1..MaxSpan :
        /\ vis.pc = "idle"
        /\ vis' = [fn |-> "VisDeformedMember", pc |-> "DY_plot", L |-> I(L), i |-> 0,
                   DY_plot |-> <<>>, DZ_plot |-> <<>>, DX_plot |-> <<>>, points |-> <<>>,
                   lines |-> <<>>]
        /\ UNCHANGED <<seg, ret, copy, segments, workers, render>>

\* One iteration of the first loop: dy_tot at L/19*i is appended to DY_plot.
SampleDY ==
    /\ vis.fn = "VisDeformedMember" /\ vis.pc = "DY_plot"
    /\ vis' = IF vis.i < SamplePoints
               THEN [vis EXCEPT !.i = @ + 1,
                                !.DY_plot = Append(@, SamplePosition(vis.L, vis.i))]
               ELSE [vis EXCEPT !.pc = "DZ_plot", !.i = 0]
    /\ UNCHANGED <<seg, ret, copy, segments, workers, render>>

\* One iteration of the second loop: dz_tot at L/19*i is appended to DZ_plot.
SampleDZ ==
    /\ vis.fn = "VisDeformedMember" /\ vis.pc = "DZ_plot"
    /\ vis' = IF vis.i < SamplePoints
               THEN [vis EXCEPT !.i = @ + 1,
                                !.DZ_plot = Append(@, SamplePosition(vis.L, vis.i))]
               ELSE [vis EXCEPT !.pc = "DX_plot", !.i = 0]
    /\ UNCHANGED <<seg, ret, copy, segments, workers, render>>

\* One iteration of the third loop: dx_tot at L/19*i is appended to DX_plot.
SampleDX ==
    /\ vis.fn = "VisDeformedMember" /\ vis.pc = "DX_plot"
    /\ vis' = IF vis.i < SamplePoints
               THEN [vis EXCEPT !.i = @ + 1,
                                !.DX_plot = Append(@, SamplePosition(vis.L, vis.i))]
               ELSE [vis EXCEPT !.pc = "polyline", !.i = 0]
    /\ UNCHANGED <<seg, ret, copy, segments, workers, render>>

\* D_plot = DY_plot + DZ_plot + DX_plot, row by row (numpy raises ValueError
\* on plots of different lengths); then one point and one cell point per row
\* of D_plot, in the order of the rows.
Polyline ==
    /\ vis.fn = "VisDeformedMember" /\ vis.pc = "polyline"
    /\ vis' = IF Len(vis.DY_plot) = Len(vis.DZ_plot) /\ Len(vis.DZ_plot) = Len(vis.DX_plot)
               THEN [vis EXCEPT !.pc = "done",
                                !.points = [n \in 1..Len(vis.DX_plot) |-> vis.DX_plot[n]],
                                !.lines = [n \in 1..Len(vis.DX_plot) |-> n - 1]]
               ELSE [vis EXCEPT !.pc = "raised"]
    /\ UNCHANGED <<seg, ret, copy, segments, workers, render>>

(* __MaxLoads and __RenderLoads.  A nodal load is (Direction, P, case), a   *)
(* member point load (Direction, P, x, case) and a member distributed load  *)
(* (Direction, w1, w2, x1, x2, case); they are records here, the field name *)
(* for the tuple index.  factors is model.LoadCombos[combo_name].factors.   *)

\* RenderModel(model, text_height=5, ...)
TextHeight == 5

\* A node carries at most MaxNodeLoads loads.
MaxNodeLoads == 2

NodeLoadSet ==
    {[Direction |-> "FX", P |-> I(-2), case |-> "D"], [Direction |-> "FX", P |-> I(1), case |-> "D"],
     [Direction |-> "FX", P |-> I(0), case |-> "D"], [Direction |-> "MZ", P |-> I(1), case |-> "D"],
     [Direction |-> "FX", P |-> I(1), case |-> "L"], [Direction |-> "MZ", P |-> I(-2), case |-> "W"]}

RECURSIVE ListsOf(_, _)
ListsOf(S, n) ==
    IF n = 0 THEN {<<>>}
    ELSE ListsOf(S, n - 1) \cup {Append(l, e) : l \in {m \in ListsOf(S, n - 1) : Len(m) = n - 1}, e \in S}

PtLoadLists ==
    {<<>>, <<[Direction |-> "Fy", P |-> I(-1), x |-> I(1), case |-> "D"]>>,
     <<[Direction |-> "Mz", P |-> I(2), x |-> I(1), case |-> "D"]>>}

DistLoadLists ==
    {<<>>,
     <<[Direction |-> "Fy", w1 |-> I(-2), w2 |-> I(-1), x1 |-> I(0), x2 |-> I(40), case |-> "D"]>>,
     <<[Direction |-> "Fy", w1 |-> I(0), w2 |-> I(-2), x1 |-> I(0), x2 |-> I(40), case |-> "D"]>>,
     <<[Direction |-> "Fy", w1 |-> I(1), w2 |-> I(1), x1 |-> I(0), x2 |-> I(2), case |-> "L"]>>}

\* One node and one member with their loads; the combination scales case D
\* by 2 and case L by 0 and has no factor for case W.
LoadedModels ==
    {[NodeLoads |-> n, PtLoads |-> p, DistLoads |-> d, factors |-> ("D" :> I(2) @@ "L" :> I(0))] :
        n \in ListsOf(NodeLoadSet, MaxNodeLoads), p \in PtLoadLists, d \in DistLoadLists}

LoadCases == {PyNone, "D", "L"}

\* abs(x)
PyAbs(x) == Arith(x, x, IF Sign(x) < 0 THEN Neg(x) ELSE x)

\* The largest of a set of numbers, starting from 0.
Largest(S) == CHOOSE m \in S \cup {I(0)} : \A y \in S \cup {I(0)} : Le(y, m)

Elements(l) == {l[n] : n \in DOMAIN l}

\* A faulty __MaxLoads, against which the normalisation is checked: it leaves
\* the factors of the combination out.
MaxLoadsUnfactored(model, combo_name, case) ==
    LET in(load) == IF case = PyNone THEN load.case \in DOMAIN model.factors
                    ELSE load.case = case
        nodal == {l \in Elements(model.NodeLoads) : in(l)}
        point == {l \in Elements(model.PtLoads) : in(l)}
        dist  == {l \in Elements(model.DistLoads) : in(l)}
    IN  <<Largest({PyAbs(l.P) : l \in {m \in nodal : m.Direction \in {"FX", "FY", "FZ"}}}
                  \cup {PyAbs(l.P) : l \in {m \in point : m.Direction \in {"Fx", "Fy", "Fz"}}}),
          Largest({PyAbs(l.P) : l \in {m \in nodal : m.Direction \notin {"FX", "FY", "FZ"}}}
                  \cup {PyAbs(l.P) : l \in {m \in point : m.Direction \notin {"Fx", "Fy", "Fz"}}}),
          Largest({PyAbs(l.w1) : l \in dist} \cup {PyAbs(l.w2) : l \in dist})>>

\* __MaxLoads(model, combo_name, case): (maxPtLoad, maxMoment, maxDistLoad).
\* Without a case a load counts when its case is in the factors of the
\* combination, with its factored value; with a case it counts when its case
\* is that case, with its own value.
MaxLoads(model, combo_name, case) ==
    LET in(load) == IF case = PyNone THEN load.case \in DOMAIN model.factors
                    ELSE load.case = case
        of(v, load) == IF case = PyNone THEN PyAbs(Mul(v, model.factors[load.case]))
                       ELSE PyAbs(v)
        nodal == {l \in Elements(model.NodeLoads) : in(l)}
        point == {l \in Elements(model.PtLoads) : in(l)}
        dist  == {l \in Elements(model.DistLoads) : in(l)}
    IN  <<Largest({of(l.P, l) : l \in {m \in nodal : m.Direction \in {"FX", "FY", "FZ"}}}
                  \cup {of(l.P, l) : l \in {m \in point : m.Direction \in {"Fx", "Fy", "Fz"}}}),
          Largest({of(l.P, l) : l \in {m \in nodal : m.Direction \notin {"FX", "FY", "FZ"}}}
                  \cup {of(l.P, l) : l \in {m \in point : m.Direction \notin {"Fx", "Fy", "Fz"}}}),
          Largest({of(l.w1, l) : l \in dist} \cup {of(l.w2, l) : l \in dist})>>

\* load_factors: the factors of the combination, or {case: 1}.
LoadFactors(model, combo_name, case) ==
    IF case = PyNone THEN model.factors ELSE (case :> I(1))

\* value/maximum*5*text_height
ArrowLength(value, maximum, text_height) ==
    Mul(Mul(Div(value, maximum), I(5)), I(text_height))

\* abs(value)/maximum*2.5*text_height
MomentRadius(value, maximum, text_height) ==
    Mul(Mul(Div(PyAbs(value), maximum), Num(5, 0, 2, 1)), I(text_height))

\* The body of the loop over node.NodeLoads for one load: nothing when the
\* load is not selected or has no known direction, else the visual object,
\* or the exception of sign = load_value/abs(load_value).
NodeLoadVisual(load, factors, max, text_height) ==
    LET load_value == Mul(load.P, factors[load.case])
        sign == Div(load_value, PyAbs(load_value))
    IN  IF load.case \notin DOMAIN factors THEN <<>>
        ELSE IF IsErr(sign) THEN <<[class |-> sign.t]>>
        ELSE IF load.Direction \in {"FX", "FY", "FZ"}
        THEN <<[class |-> "VisPtLoad", load |-> load, sign |-> sign, value |-> load_value,
                length |-> ArrowLength(load_value, max[1], text_height)]>>
        ELSE IF load.Direction \in {"MX", "MY", "MZ"}
        THEN <<[class |-> "VisMoment", load |-> load, sign |-> sign, value |-> load_value,
                length |-> MomentRadius(load_value, max[2], text_height)]>>
        ELSE <<>>

\* The same for one load of member.PtLoads.
PtLoadVisual(load, factors, max, text_height) ==
    LET load_value == Mul(load.P, factors[load.case])
        sign == Div(load_value, PyAbs(load_value))
    IN  IF load.case \notin DOMAIN factors THEN <<>>
        ELSE IF IsErr(sign) THEN <<[class |-> sign.t]>>
        ELSE IF load.Direction \in {"Fx", "Fy", "Fz"}
        THEN <<[class |-> "VisPtLoad", load |-> load, sign |-> sign, value |-> load_value,
                length |-> ArrowLength(load_value, max[1], text_height)]>>
        ELSE IF load.Direction \in {"Mx", "My", "Mz"}
        THEN <<[class |-> "VisMoment", load |-> load, sign |-> sign, value |-> load_value,
                length |-> MomentRadius(load_value, max[2], text_height)]>>
        ELSE <<>>

\* The same for one load of member.DistLoads: sign1 = w1/abs(w1), then
\* sign2 = w2/abs(w2), then the VisDistLoad.
DistLoadVisual(load, factors, max, text_height) ==
    LET w1 == Mul(load.w1, factors[load.case])
        w2 == Mul(load.w2, factors[load.case])
        sign1 == Div(w1, PyAbs(w1))
        sign2 == Div(w2, PyAbs(w2))
    IN  IF load.case \notin DOMAIN factors THEN <<>>
        ELSE IF IsErr(sign1) THEN <<[class |-> sign1.t]>>
        ELSE IF IsErr(sign2) THEN <<[class |-> sign2.t]>>
        ELSE IF load.Direction \in {"Fx", "Fy", "Fz"}
        THEN <<[class |-> "VisDistLoad", load |-> load, sign |-> sign1, value |-> w1,
                length |-> ArrowLength(w1, max[3], text_height),
                sign2 |-> sign2, value2 |-> w2,
                length2 |-> ArrowLength(w2, max[3], text_height)]>>
        ELSE <<>>

\* One iteration of a load loop: the visual object is added to the renderer,
\* or the exception leaves the function.
Displayed(visual) ==
    IF visual # <<>> /\ visual[1].class \notin {"VisPtLoad", "VisMoment", "VisDistLoad"}
    THEN [vis EXCEPT !.pc = "raised", !.exc = visual[1].class]
    ELSE [vis EXCEPT !.n = @ + 1, !.made = @ \o visual]

\* __RenderLoads(model, renderer, text_height, combo_name, case) is called.
CallRenderLoads ==
    \E model \in LoadedModels, case \in LoadCases :
        /\ vis.pc = "idle"
        /\ vis' = [fn |-> "__RenderLoads", pc |-> "__MaxLoads", model |-> model,
                   combo_name |-> "Combo 1", case |-> case, text_height |-> TextHeight,
                   max |-> <<>>, load_factors |-> <<>>, n |-> 1, made |-> <<>>, exc |-> PyNone]
        /\ UNCHANGED <<seg, ret, copy, segments, workers, render>>

\* maxPtLoad, maxMoment, maxDistLoad = __MaxLoads(...), then load_factors.
CallMaxLoads ==
    /\ vis.fn = "__RenderLoads" /\ vis.pc = "__MaxLoads"
    /\ vis' = [vis EXCEPT !.pc = "NodeLoads",
                          !.max = MaxLoads(vis.model, vis.combo_name, vis.case),
                          !.load_factors = LoadFactors(vis.model, vis.combo_name, vis.case)]
    /\ UNCHANGED <<seg, ret, copy, segments, workers, render>>

\* for load in node.NodeLoads:
DisplayNodeLoad ==
    /\ vis.fn = "__RenderLoads" /\ vis.pc = "NodeLoads"
    /\ vis' = IF vis.n > Len(vis.model.NodeLoads) THEN [vis EXCEPT !.pc = "PtLoads", !.n = 1]
               ELSE Displayed(NodeLoadVisual(vis.model.NodeLoads[vis.n], vis.load_factors,
                                             vis.max, vis.text_height))
    /\ UNCHANGED <<seg, ret, copy, segments, workers, render>>

\* for load in member.PtLoads:
DisplayPtLoad ==
    /\ vis.fn = "__RenderLoads" /\ vis.pc = "PtLoads"
    /\ vis' = IF vis.n > Len(vis.model.PtLoads) THEN [vis EXCEPT !.pc = "DistLoads", !.n = 1]
               ELSE Displayed(PtLoadVisual(vis.model.PtLoads[vis.n], vis.load_factors,
                                           vis.max, vis.text_height))
    /\ UNCHANGED <<seg, ret, copy, segments, workers, render>>

\* for load in member.DistLoads:
DisplayDistLoad ==
    /\ vis.fn = "__RenderLoads" /\ vis.pc = "DistLoads"
    /\ vis' = IF vis.n > Len(vis.model.DistLoads) THEN [vis EXCEPT !.pc = "done"]
               ELSE Displayed(DistLoadVisual(vis.model.DistLoads[vis.n], vis.load_factors,
                                             vis.max, vis.text_height))
    /\ UNCHANGED <<seg, ret, copy, segments, workers, render>>

(* VisPtLoad and VisDistLoad.  A position or direction is a sequence of     *)
(* three numbers; a label is a string.                                      *)

\* The loaded line ends at (n, 0, 0), n = 0..MaxExtent.
MaxExtent == 4

\* The display lengths are -MaxArrow..MaxArrow.
MaxArrow == 2

\* int(round(x, 0)) for a rational x: to the nearest integer, a tie to the
\* even one.
Round(x) ==
    LET f == x.a \div x.c
        m == x.a % x.c
    IN  IF 2 * m < x.c THEN f
        ELSE IF 2 * m > x.c THEN f + 1
        ELSE IF f % 2 = 0 THEN f ELSE f + 1

\* max(abs(length1), abs(length2))
Longest(length1, length2) ==
    IF Lt(PyAbs(length1), PyAbs(length2)) THEN PyAbs(length2) ELSE PyAbs(length1)

\* VisPtLoad(position, direction, length, label_text, text_height): the unit
\* vector, sign = abs(length)/length, the tip and the shaft, and a label
\* actor when there is a label text.  The outcome is the arrow or the name
\* of the exception.
VisPtLoad(position, direction, length, label_text) ==
    LET unitVector == UnitVector(direction)
        sign == Div(PyAbs(length), length)
    IN  IF IsErr(unitVector[1]) THEN [class |-> unitVector[1].t]
        ELSE IF IsErr(sign) THEN [class |-> sign.t]
        ELSE [class |-> "VisPtLoad", position |-> position, length |-> length,
              sign |-> sign, tip_length |-> Div(PyAbs(length), I(4)),
              lblActor |-> label_text]

\* VisDistLoad(position1, position2, direction, length1, length2,
\* label_text1, label_text2, text_height) is called.
CallVisDistLoad ==
    \E n \in 0..MaxExtent, length1 \in -MaxArrow..MaxArrow, length2 \in -MaxArrow..MaxArrow :
        /\ vis.pc = "idle"
        /\ vis' = [fn |-> "VisDistLoad", pc |-> "loadLength",
                   position1 |-> <<I(0), I(0), I(0)>>, position2 |-> <<I(n), I(0), I(0)>>,
                   direction |-> <<I(0), I(1), I(0)>>,
                   length1 |-> I(length1), length2 |-> I(length2),
                   label_text1 |-> "w1", label_text2 |-> "w2",
                   loadLength |-> None, lineDirCos |-> <<>>, num_steps |-> 0, step |-> None,
                   i |-> 0, label_text |-> PyNone, ptLoads |-> <<>>, lblActors |-> <<>>,
                   exc |-> PyNone]
        /\ UNCHANGED <<seg, ret, copy, segments, workers, render>>

\* loadLength and the direction cosines of the line: a division by
\* loadLength.
DistLoadLength ==
    LET d == [k \in 1..3 |-> Sub(vis.position2[k], vis.position1[k])]
        loadLength == Magnitude(d)
        lineDirCos == [k \in 1..3 |-> Div(d[k], loadLength)]
    IN  /\ vis.fn = "VisDistLoad" /\ vis.pc = "loadLength"
        /\ vis' = IF IsErr(lineDirCos[1])
                   THEN [vis EXCEPT !.pc = "raised", !.exc = lineDirCos[1].t,
                                    !.loadLength = loadLength]
                   ELSE [vis EXCEPT !.pc = "num_steps", !.loadLength = loadLength,
                                    !.lineDirCos = lineDirCos]
        /\ UNCHANGED <<seg, ret, copy, segments, workers, render>>

\* num_steps = int(round(0.75*loadLength/max(abs(length1), abs(length2)), 0))
\* and step = loadLength/num_steps.
DistLoadSteps ==
    LET ratio == Div(Mul(Num(3, 0, 4, 1), vis.loadLength), Longest(vis.length1, vis.length2))
        step == Div(vis.loadLength, I(Round(ratio)))
    IN  /\ vis.fn = "VisDistLoad" /\ vis.pc = "num_steps"
        /\ vis' = IF IsErr(ratio) THEN [vis EXCEPT !.pc = "raised", !.exc = ratio.t]
                   ELSE IF IsErr(step)
                   THEN [vis EXCEPT !.pc = "raised", !.exc = step.t, !.num_steps = Round(ratio)]
                   ELSE [vis EXCEPT !.pc = "ptLoads", !.num_steps = Round(ratio),
                                    !.step = step]
        /\ UNCHANGED <<seg, ret, copy, segments, workers, render>>

\* One iteration of for i in range(num_steps + 1): the position, the length
\* and the label text of the arrow, and the VisPtLoad.  label_text keeps its
\* value when i is neither 0 nor num_steps.
DistLoadArrow ==
    LET position == [k \in 1..3 |-> Add(vis.position1[k],
                                        Mul(Mul(I(vis.i), vis.step), vis.lineDirCos[k]))]
        length == Add(vis.length1,
                      Mul(Mul(Div(Sub(vis.length2, vis.length1), vis.loadLength), I(vis.i)),
                          vis.step))
        label_text == IF vis.i = 0 THEN vis.label_text1
                      ELSE IF vis.i = vis.num_steps THEN vis.label_text2
                      ELSE vis.label_text
        arrow == VisPtLoad(position, vis.direction, length, label_text)
    IN  /\ vis.fn = "VisDistLoad" /\ vis.pc = "ptLoads"
        /\ vis' = IF vis.i > vis.num_steps THEN [vis EXCEPT !.pc = "actor"]
                   ELSE IF arrow.class # "VisPtLoad"
                   THEN [vis EXCEPT !.pc = "raised", !.exc = arrow.class]
                   ELSE [vis EXCEPT !.i = @ + 1, !.label_text = label_text,
                                    !.ptLoads = Append(@, arrow)]
        /\ UNCHANGED <<seg, ret, copy, segments, workers, render>>

\* The tail line, the actor, and
\* self.lblActors = [ptLoads[0].lblActor, ptLoads[len(ptLoads) - 1].lblActor].
DistLoadActor ==
    /\ vis.fn = "VisDistLoad" /\ vis.pc = "actor"
    /\ vis' = [vis EXCEPT !.pc = "done",
                          !.lblActors = <<<<1, vis.ptLoads[1].lblActor>>,
                                          <<Len(vis.ptLoads),
                                            vis.ptLoads[Len(vis.ptLoads)].lblActor>>>>]
    /\ UNCHANGED <<seg, ret, copy, segments, workers, render>>

NextVis ==
    \/ CallVisNode
    \/ VisNodeSupports
    \/ VisNodeActor
    \/ CallPerpVector
    \/ PerpVectorReturn
    \/ CallVisDeformedMember
    \/ SampleDY
    \/ SampleDZ
    \/ SampleDX
    \/ Polyline
    \/ CallRenderLoads
    \/ CallMaxLoads
    \/ DisplayNodeLoad
    \/ DisplayPtLoad
    \/ DisplayDistLoad
    \/ CallVisDistLoad
    \/ DistLoadLength
    \/ DistLoadSteps
    \/ DistLoadArrow
    \/ DistLoadActor
    \/ ReturnVis

SpecVis == InitVis /\ [][NextVis]_vars

-----------------------------------------------------------------------------
(* Vocabulary of the properties.                                            *)

\* Sample positions are the multiples of 1/SampleDen.
SampleDen == 2

Evaluators == {"Shear", "Moment", "Axial", "Slope", "Deflection"}

Extrema == {"MaxShear", "MinShear", "MaxMoment", "MinMoment", "MaxAxial", "MinAxial"}

Methods == {"Length"} \cup Evaluators \cup Extrema

\* All twelve attributes of the constructor are bound to numbers.
Populated(s) == \A a \in Attributes : IsNum(s[a])

\* A valid segment: populated, with x2 > x1.
Valid(s) == Populated(s) /\ Lt(s["x1"], s["x2"])

\* The attribute L is bound to the derived length x2 - x1.
LengthBound(s) == "L" \in DOMAIN s /\ s["L"] = Length(s)

\* The sample positions in [0, L], L = x2 - x1 an integer.
Samples(s) == {Num(k, 0, SampleDen, 1) : k \in 0..(SampleDen * Length(s).a)}

\* The positions at which MaxMoment and MinMoment evaluate Moment.
MomentCandidates(s) ==
    {Clamp(MaxMomentRoots(s)[1], Length(s)), Clamp(MaxMomentRoots(s)[2], Length(s)),
     I(0), Length(s)}

\* The position x* at which MaxAxial and MinAxial evaluate Axial, besides 0 and L.
AxialCandidates(s) ==
    {IF s["p1"] = s["p2"] THEN I(0)
     ELSE Clamp(Div(Mul(Length(s), s["p1"]), Sub(s["p1"], s["p2"])), Length(s)),
     I(0), Length(s)}

\* The closed forms of the specification, with L = x2 - x1.
ShearForm(s, x) ==
    Sub(Sub(s["V1"], Mul(Div(Sub(s["w2"], s["w1"]), Mul(I(2), Length(s))), Pow(x, 2))),
        Mul(s["w1"], x))

MomentForm(s, x) ==
    Sub(Sub(Add(s["M1"], Mul(s["V1"], x)),
            Mul(Div(Sub(s["w2"], s["w1"]), Mul(I(6), Length(s))), Pow(x, 3))),
        Mul(Div(s["w1"], I(2)), Pow(x, 2)))

AxialForm(s, x) ==
    Add(Add(s["P1"], Mul(Div(Sub(s["p2"], s["p1"]), Mul(I(2), Length(s))), Pow(x, 2))),
        Mul(s["p1"], x))

SlopeBracket(s, x) ==
    Sub(Sub(Add(Mul(s["M1"], x), Mul(Div(s["V1"], I(2)), Pow(x, 2))),
            Mul(Div(Sub(s["w2"], s["w1"]), Mul(I(24), Length(s))), Pow(x, 4))),
        Mul(Div(s["w1"], I(6)), Pow(x, 3)))

SlopeForm(s, x, EI) == Add(s["theta1"], Div(SlopeBracket(s, x), EI))

DeflectionBracket(s, x) ==
    Sub(Sub(Add(Mul(Div(s["M1"], I(2)), Pow(x, 2)), Mul(Div(s["V1"], I(6)), Pow(x, 3))),
            Mul(Div(Sub(s["w2"], s["w1"]), Mul(I(120), Length(s))), Pow(x, 5))),
        Mul(Div(s["w1"], I(24)), Pow(x, 4)))

DeflectionForm(s, x, EI) ==
    Add(Add(s["delta1"], Mul(s["theta1"], x)), Div(DeflectionBracket(s, x), EI))

\* |x|
AbsVal(x) == IF Sign(x) < 0 THEN Neg(x) ELSE x

\* The larger and the smaller of two numbers.
Larger(x, y) == IF Le(x, y) THEN y ELSE x

Smaller(x, y) == IF Le(x, y) THEN x ELSE y

\* The load intensity w(x) = w1 + (w2 - w1)*x/L, with L = x2 - x1.
Intensity(s, x) == Add(s["w1"], Div(Mul(Sub(s["w2"], s["w1"]), x), Length(s)))

\* The discriminant b^2 - 4ac of the moment quadratic, a = (w1-w2)/(2L),
\* b = -w1, c = V1.
Discriminant(s) ==
    Sub(Pow(s["w1"], 2),
        Mul(Mul(I(4), Div(Sub(s["w1"], s["w2"]), Mul(I(2), Length(s)))), s["V1"]))

\* The degenerate inputs: uniform transverse load, uniform axial load (a = 0
\* and b = 0 is the case w1 = w2 = 0), or a negative discriminant.
Degenerate(s) ==
    \/ s["w1"] = s["w2"]
    \/ s["p1"] = s["p2"]
    \/ Sign(Discriminant(s)) < 0

\* Difference quotients are taken with the step h = 1/StepDen.
StepDen == 4

Step == Num(1, 0, StepDen, 1)

\* The tolerance band of a difference quotient with step h: (|w1| + |w2|)*h.
Tolerance(s) == Mul(Add(AbsVal(s["w1"]), AbsVal(s["w2"])), Step)

\* The worked examples of the specification, as the solver hands them over.
ZeroLoadExample == Bound(<<0, 10>>, 0, 0, 0, 0, 5, 0, 0, 0, 0, 1)

TrapezoidExample == Bound(<<0, 4>>, 2, 8, 0, 0, 0, 0, 0, 0, 0, 1)

-----------------------------------------------------------------------------
(* The claims.                                                              *)

\* C1: on every valid segment (x2 > x1), MinShear() <= Shear(x) <= MaxShear()
\* for every position x in [0, L], L = x2 - x1.
C1_ShearEnvelope ==
    Valid(seg) =>
        \A x \in Samples(seg) : /\ Le(MinShear(seg), Shear(seg, x))
                                /\ Le(Shear(seg, x), MaxShear(seg))

\* C2: on every valid segment, MaxMoment() is the largest and MinMoment() the
\* smallest value of Moment over [0, L]: no position has a larger (smaller)
\* moment, and the value is the moment at a position of [0, L].
C2_MomentExtrema ==
    Valid(seg) =>
        /\ \A x \in Samples(seg) : /\ Le(MinMoment(seg), Moment(seg, x))
                                   /\ Le(Moment(seg, x), MaxMoment(seg))
        /\ \E x \in MomentCandidates(seg) : MaxMoment(seg) = MomentForm(seg, x)
        /\ \E x \in MomentCandidates(seg) : MinMoment(seg) = MomentForm(seg, x)

\* C3: on every valid segment, MaxAxial() is the largest and MinAxial() the
\* smallest value of Axial over [0, L], attained at 0, at L or at
\* x* = L*p1/(p1-p2) when p1 # p2 and 0 <= x* <= L.
C3_AxialExtrema ==
    Valid(seg) =>
        /\ \A x \in Samples(seg) : /\ Le(MinAxial(seg), Axial(seg, x))
                                   /\ Le(Axial(seg, x), MaxAxial(seg))
        /\ \E x \in AxialCandidates(seg) : MaxAxial(seg) = AxialForm(seg, x)
        /\ \E x \in AxialCandidates(seg) : MinAxial(seg) = AxialForm(seg, x)

\* C4: on every valid segment, MaxShear() >= MinShear(),
\* MaxMoment() >= MinMoment() and MaxAxial() >= MinAxial().
C4_MaxAtLeastMin ==
    Valid(seg) =>
        /\ Le(MinShear(seg), MaxShear(seg))
        /\ Le(MinMoment(seg), MaxMoment(seg))
        /\ Le(MinAxial(seg), MaxAxial(seg))

\* C5: on every valid segment, a call at the segment start returns the boundary
\* value: Shear(0) = V1, Moment(0) = M1, Axial(0) = P1, and for EI > 0
\* Slope(0, EI) = theta1 and Deflection(0, EI) = delta1.
C5_StartValues ==
    (Valid(seg) /\ ret.x = I(0)) =>
        /\ ret.op = "Shear" => ret.out = seg["V1"]
        /\ ret.op = "Moment" => ret.out = seg["M1"]
        /\ ret.op = "Axial" => ret.out = seg["P1"]
        /\ (ret.op = "Slope" /\ Sign(ret.EI) > 0) => ret.out = seg["theta1"]
        /\ (ret.op = "Deflection" /\ Sign(ret.EI) > 0) => ret.out = seg["delta1"]

\* C6: on every valid segment and for every x (and EI > 0), each evaluator
\* returns the value of its closed form with L = x2 - x1.
C6_ClosedForms ==
    Valid(seg) =>
        /\ ret.op = "Shear" => ret.out = ShearForm(seg, ret.x)
        /\ ret.op = "Moment" => ret.out = MomentForm(seg, ret.x)
        /\ ret.op = "Axial" => ret.out = AxialForm(seg, ret.x)
        /\ (ret.op = "Slope" /\ Sign(ret.EI) > 0)
               => ret.out = SlopeForm(seg, ret.x, ret.EI)
        /\ (ret.op = "Deflection" /\ Sign(ret.EI) > 0)
               => ret.out = DeflectionForm(seg, ret.x, ret.EI)

\* C7: a segment with x2 <= x1 is rejected with InvalidGeometry: no method ever
\* runs on an object whose x1 and x2 are bound with x2 <= x1.
C7_NoInvalidGeometry ==
    ret.op \in Methods =>
        ~(IsNum(seg["x1"]) /\ IsNum(seg["x2"]) /\ Le(seg["x2"], seg["x1"]))

\* C8: Slope(x, EI) and Deflection(x, EI) fail with InvalidStiffness when
\* EI <= 0 and return a number when EI > 0 (stated for the segments on which
\* the evaluators can run at all: valid, with L bound to x2 - x1).
C8_InvalidStiffness ==
    (Valid(seg) /\ LengthBound(seg) /\ ret.op \in {"Slope", "Deflection"}) =>
        IF Sign(ret.EI) <= 0 THEN ret.out.t = "InvalidStiffness"
        ELSE IsNum(ret.out)

\* C9: the length is derived: the L an evaluator computes with is x2 - x1, the
\* length Length() returns and the extrema queries use.
C9_DerivedLength ==
    (ret.op \in Evaluators /\ IsNum(seg["x1"]) /\ IsNum(seg["x2"])) =>
        Get(seg, "L") = Length(seg)

\* C10: no method runs while an attribute it needs is still the placeholder
\* None of the constructor: no call fails with the TypeError of None arithmetic.
C10_NoPlaceholderAtQuery ==
    ret.op \in Methods => ret.out.t # "TypeError"

\* C11: every query leaves the attributes of the segment as they were, and
\* returns what the same query returns on a fresh copy of the segment (taken
\* after the client's last assignment), whatever queries ran before it.
C11_QueriesLeaveSegment ==
    ret.op \in Methods =>
        /\ seg = copy
        /\ ret.out = Run(ret.op, ret.x, ret.EI, copy)

\* C11 witness: MaxMoment has run to its end (reassigning its locals x1, x2)
\* on a valid segment whose L is bound.
C11_Witness ==
    /\ ret.op = "MaxMoment"
    /\ Valid(seg)
    /\ IsNum(ret.out)

\* C12: on a published array of populated segments, under every interleaving
\* of the workers' steps, each call returns the outcome (the value, or the
\* exception) it has when run alone.
C12_ConcurrentQueries ==
    (\A i \in DOMAIN segments : Populated(segments[i])) =>
        \A w \in Workers : workers[w].pc = "done" => workers[w].out = workers[w].alone

\* C12 witness: both workers have run a call on the same segment at the same
\* time, and both have returned a number.
C12_Witness ==
    /\ workers["A"].pc = "done" /\ workers["B"].pc = "done"
    /\ workers["A"].i = workers["B"].i
    /\ workers["A"].op = "MaxShear" /\ workers["B"].op = "Shear"
    /\ IsNum(workers["A"].out) /\ IsNum(workers["B"].out)

\* C13: on every valid segment with degenerate inputs (w1 = w2, p1 = p2,
\* a = 0 and b = 0, or a negative discriminant) each of the six extrema queries
\* returns a number; with a negative discriminant, or with a = 0 and b = 0,
\* both interior moment candidates are 0.
C13_DegenerateBranches ==
    (Valid(seg) /\ Degenerate(seg)) =>
        /\ \A op \in Extrema : IsNum(Run(op, None, None, seg))
        /\ (Sign(Discriminant(seg)) < 0 \/ (Sign(seg["w1"]) = 0 /\ Sign(seg["w2"]) = 0))
               => MaxMomentRoots(seg) = <<I(0), I(0)>> /\ MinMomentRoots(seg) = <<I(0), I(0)>>

\* C14: on every valid segment with w1 = w2 = w, Shear(x) = V1 - w*x at every
\* position, MaxShear() is the larger and MinShear() the smaller of Shear(0)
\* and Shear(L).
C14_UniformLoad ==
    (Valid(seg) /\ seg["w1"] = seg["w2"]) =>
        /\ \A x \in Samples(seg) : Shear(seg, x) = Sub(seg["V1"], Mul(seg["w1"], x))
        /\ MaxShear(seg) = Larger(seg["V1"], Sub(seg["V1"], Mul(seg["w1"], Length(seg))))
        /\ MinShear(seg) = Smaller(seg["V1"], Sub(seg["V1"], Mul(seg["w1"], Length(seg))))

\* C15: on every valid segment with w1 = w2 = 0, Shear(x) = V1 and
\* Moment(x) = M1 + V1*x at every position, and MaxMoment() / MinMoment() are
\* the larger / smaller of Moment(0) and Moment(L).
C15_ZeroLoad ==
    (Valid(seg) /\ Sign(seg["w1"]) = 0 /\ Sign(seg["w2"]) = 0) =>
        /\ \A x \in Samples(seg) :
               /\ Shear(seg, x) = seg["V1"]
               /\ Moment(seg, x) = Add(seg["M1"], Mul(seg["V1"], x))
        /\ MaxMoment(seg) = Larger(seg["M1"], Add(seg["M1"], Mul(seg["V1"], Length(seg))))
        /\ MinMoment(seg) = Smaller(seg["M1"], Add(seg["M1"], Mul(seg["V1"], Length(seg))))

\* C16: on every valid segment the shear at the segment end is the start shear
\* minus the total load: Shear(L) = V1 - (w1 + w2)*L/2.
C16_TrapezoidEndShear ==
    Valid(seg) =>
        Shear(seg, Length(seg))
            = Sub(seg["V1"], Div(Mul(Add(seg["w1"], seg["w2"]), Length(seg)), I(2)))

\* C17: on every valid segment and at every position x of [0, L], with the
\* step h = 1/StepDen, (Moment(x+h) - Moment(x))/h is within the tolerance
\* (|w1| + |w2|)*h of Shear(x), and (Shear(x+h) - Shear(x))/h is within it
\* of -w(x).
C17_DerivativeConsistency ==
    Valid(seg) =>
        \A x \in Samples(seg) :
            /\ Le(AbsVal(Sub(Div(Sub(Moment(seg, Add(x, Step)), Moment(seg, x)), Step),
                             Shear(seg, x))),
                  Tolerance(seg))
            /\ Le(AbsVal(Add(Div(Sub(Shear(seg, Add(x, Step)), Shear(seg, x)), Step),
                             Intensity(seg, x))),
                  Tolerance(seg))

\* C18: on every segment whose x1 and x2 are bound to numbers, Length()
\* returns the number x2 - x1, and it is positive when x2 > x1.
C18_LengthIsSpan ==
    (ret.op = "Length" /\ IsNum(seg["x1"]) /\ IsNum(seg["x2"])) =>
        /\ IsNum(ret.out)
        /\ ret.out.b = 0
        /\ ret.out.a * seg["x1"].c * seg["x2"].c
               = ret.out.c * (seg["x2"].a * seg["x1"].c - seg["x1"].a * seg["x2"].c)
        /\ Lt(seg["x1"], seg["x2"]) => Sign(ret.out) > 0

\* C18 witness: Length() has returned on a segment with x2 > x1.
C18_Witness ==
    /\ ret.op = "Length"
    /\ Lt(seg["x1"], seg["x2"])
    /\ Sign(ret.out) > 0

\* The call has got past its input validation, or has been stopped by it.
Validated == render.pc \notin {"idle", "validate"}

\* Loads have been rendered: __RenderLoads has been called.
LoadsRendered == \E k \in DOMAIN render.made : render.made[k] = "__RenderLoads"

\* C19: RenderModel raises Exception in its validation exactly when
\* deformed_shape is True and case is not None, and then nothing has been
\* made: no visual object, no window, no renderer.
C19_ValidationRaises ==
    Validated =>
        /\ render.pc = "raised" <=> (render.deformed_shape = TRUE /\ render.case # PyNone)
        /\ render.pc = "raised" => (render.exc = "Exception" /\ render.made = <<>>)
        /\ render.pc # "raised" => render.exc = PyNone

\* C19 witness: a call with deformed_shape True and a load case has raised.
C19_Witness ==
    /\ render.pc = "raised"
    /\ render.deformed_shape = TRUE
    /\ render.case = "Case 1"
    /\ render.made = <<>>

\* C20: when RenderModel has run to its end, loads have been rendered if
\* render_loads is True and have not been rendered if it is False.
C20_RenderLoadsArgument ==
    render.pc = "done" => (LoadsRendered <=> render.render_loads = TRUE)

\* 0 <= x <= L
Within(x, L) == Le(I(0), x) /\ Le(x, L)

\* The outcomes of the evaluator of op at the positions Locs(op, s).
ValuesAt(op, s) == [k \in DOMAIN Locs(op, s) |-> Evaluate(op, s, Locs(op, s)[k])]

\* C21: on every valid segment every position at which an extrema query
\* calls its evaluator lies in [0, L], L = x2 - x1; the query takes the largest
\* (smallest) outcome of these calls, so an extremum it reports is the value
\* of the evaluator at one of these positions.
C21_CandidatesWithinSegment ==
    (Valid(seg) /\ ret.op \in Extrema) =>
        /\ \A k \in DOMAIN Locs(ret.op, seg) : Within(Locs(ret.op, seg)[k], Length(seg))
        /\ ret.out = IF ret.op \in {"MaxShear", "MaxMoment", "MaxAxial"}
                      THEN PyMax(ValuesAt(ret.op, seg)) ELSE PyMin(ValuesAt(ret.op, seg))
        /\ IsNum(ret.out) =>
               \E k \in DOMAIN Locs(ret.op, seg) : ret.out = ValuesAt(ret.op, seg)[k]

\* C21 witness: MaxMoment has reported an extremum on a valid segment whose
\* quadratic has a root beyond the segment end, which the query replaced by 0.
C21_Witness ==
    /\ ret.op = "MaxMoment"
    /\ Valid(seg)
    /\ IsNum(ret.out)
    /\ IsNum(MaxMomentRoots(seg)[1])
    /\ Lt(Length(seg), MaxMomentRoots(seg)[1])
    /\ Locs("MaxMoment", seg)[1] = I(0)

\* The shear candidate c of the specification: w1*L/(w1-w2) if w1 # w2 and
\* it lies in [0, L], else 0.
ShearCandidate(s) ==
    IF s["w1"] = s["w2"] THEN I(0)
    ELSE IF Within(Div(Mul(s["w1"], Length(s)), Sub(s["w1"], s["w2"])), Length(s))
         THEN Div(Mul(s["w1"], Length(s)), Sub(s["w1"], s["w2"]))
         ELSE I(0)

\* C22: on every valid segment MaxShear() and MinShear() return the largest
\* and the smallest of Shear(0), Shear(L) and Shear(c), c the shear candidate.
C22_ShearCandidateSet ==
    (Valid(seg) /\ ret.op \in {"MaxShear", "MinShear"}) =>
        /\ IsNum(ret.out)
        /\ ret.op = "MaxShear" =>
               ret.out = PyMax(<<Shear(seg, I(0)), Shear(seg, Length(seg)),
                                 Shear(seg, ShearCandidate(seg))>>)
        /\ ret.op = "MinShear" =>
               ret.out = PyMin(<<Shear(seg, I(0)), Shear(seg, Length(seg)),
                                 Shear(seg, ShearCandidate(seg))>>)

\* The coefficients of the moment quadratic: a = (w1-w2)/(2L), b = -w1, c = V1.
QuadA(s) == Div(Sub(s["w1"], s["w2"]), Mul(I(2), Length(s)))

QuadB(s) == Neg(s["w1"])

QuadC(s) == s["V1"]

\* The roots of the quadratic the specification names: -c/b if a = 0 and
\* b # 0; none if a = 0 and b = 0 or if the discriminant is negative; else
\* (-b +/- sqrt(b^2 - 4ac))/(2a).
QuadRoots(s) ==
    IF Sign(QuadA(s)) = 0
    THEN IF Sign(QuadB(s)) # 0 THEN {Div(Neg(QuadC(s)), QuadB(s))} ELSE {}
    ELSE IF Sign(Discriminant(s)) < 0 THEN {}
    ELSE {Div(Add(Neg(QuadB(s)), Sqrt(Discriminant(s))), Mul(I(2), QuadA(s))),
          Div(Sub(Neg(QuadB(s)), Sqrt(Discriminant(s))), Mul(I(2), QuadA(s)))}

\* The moment candidates of the specification: 0, L, and the roots in [0, L]
\* (a root outside [0, L] is replaced by 0, as is a root that does not exist).
MomentCandidateSet(s) ==
    {I(0), Length(s)} \cup {r \in QuadRoots(s) : Within(r, Length(s))}

\* C23: on every valid segment MaxMoment() and MinMoment() return the largest
\* and the smallest value of Moment over the moment candidates, and every root
\* kept as a candidate is a zero of Shear.
C23_MomentCandidateSet ==
    (Valid(seg) /\ ret.op \in {"MaxMoment", "MinMoment"}) =>
        /\ IsNum(ret.out)
        /\ \E x \in MomentCandidateSet(seg) : ret.out = Moment(seg, x)
        /\ \A x \in MomentCandidateSet(seg) :
               IF ret.op = "MaxMoment" THEN Le(Moment(seg, x), ret.out)
               ELSE Le(ret.out, Moment(seg, x))
        /\ \A r \in QuadRoots(seg) : Within(r, Length(seg)) => Shear(seg, r) = I(0)

\* The values the stored attribute EI may have: unset (None) or a number.
StoredStiffnesses == {None} \cup {I(i) : i \in (-MaxEI - 1)..(MaxEI + 1)}

\* C30: the outcome of every method is the same whatever the stored attribute
\* EI of the segment is, unset included: Slope and Deflection depend on the
\* stiffness only through their argument EI.
C30_StoredStiffnessUnread ==
    ret.op \in Methods =>
        \A v \in StoredStiffnesses :
            ret.out = Run(ret.op, ret.x, ret.EI, SetAttrOf(seg, "EI", v))

\* C30 witness: Slope has returned a number for an argument EI that is not
\* the stored EI.
C30_Witness ==
    /\ ret.op = "Slope"
    /\ IsNum(ret.out)
    /\ IsNum(seg["EI"])
    /\ ret.EI # seg["EI"]
    /\ ret.x # I(0)

\* The sources VisNode has appended for the supports of its node.
SupportSources == SubSeq(vis.made, 5, Len(vis.made))

\* C24: in VisNode the pinned-support test repeats the fixed-support test, so
\* for each of the 64 combinations of the six support flags the pinned branch
\* is never taken: a node with all six flags set gets the cube, and every
\* other node, one restrained in DX, DY, DZ with free rotations included, gets
\* only the per-direction support symbols.
C24_PinnedBranchNeverTaken ==
    (vis.fn = "VisNode" /\ vis.pc = "actor") =>
        /\ PinnedTest(vis.node) <=> FixedTest(vis.node)
        /\ vis.branch # "pinned"
        /\ FixedTest(vis.node) =>
               vis.branch = "fixed" /\ SupportSources = <<"vtkCubeSource">>
        /\ ~FixedTest(vis.node) =>
               /\ vis.branch = "other"
               /\ SupportSources = DirectionSymbols(vis.node, 1)

\* C24 witness: a node restrained in DX, DY, DZ with free rotations has been
\* given its supports: three per-direction symbols.
C24_Witness ==
    /\ vis.fn = "VisNode" /\ vis.pc = "actor"
    /\ vis.node = [d \in {"DX", "DY", "DZ", "RX", "RY", "RZ"} |-> d \in {"DX", "DY", "DZ"}]
    /\ vis.branch = "other"
    /\ Len(SupportSources) = 9

\* The dot product of two vectors.
Dot(u, v) == Add(Add(Mul(u[1], v[1]), Mul(u[2], v[2])), Mul(u[3], v[3]))

NonZero(v) == \E n \in 1..3 : IsNum(v[n]) /\ ~Eq(v[n], I(0))

\* C25: for every non-zero v, in each of its four branches PerpVector builds a
\* non-zero vector that has zero dot product with v, and the unit vector it
\* returns is perpendicular to v as well.
C25_PerpVectorPerpendicular ==
    (vis.fn = "PerpVector" /\ vis.pc = "done" /\ NonZero(vis.v)) =>
        /\ NonZero(vis.built)
        /\ Eq(Dot(vis.built, vis.v), I(0))
        /\ NonZero(vis.out)
        /\ Eq(Dot(vis.out, vis.v), I(0))
        /\ Eq(Dot(vis.out, vis.out), I(1))

\* C25 witness: PerpVector has returned from its last branch (no component of
\* v is zero) with a third component that is not an integer, and its unit
\* vector has an irrational magnitude behind it.
C25_Witness ==
    /\ vis.fn = "PerpVector" /\ vis.pc = "done"
    /\ \A n \in 1..3 : ~Eq(vis.v[n], I(0))
    /\ vis.built[3].c > 1
    /\ vis.out[1].b # 0

\* The positions a plot was sampled at are the SamplePoints positions
\* L/19*i, i = 0..19, in this order.
EquallySpaced(plot, L) ==
    /\ Len(plot) = 20
    /\ \A n \in 1..Len(plot) :
           /\ Eq(Mul(plot[n], I(19)), Mul(L, I(n - 1)))
           /\ Le(I(0), plot[n]) /\ Le(plot[n], L)
    /\ Eq(plot[1], I(0))
    /\ Eq(plot[Len(plot)], L)
    /\ \A n \in 1..(Len(plot) - 1) : Lt(plot[n], plot[n + 1])

Shown == {vis.made[n] : n \in DOMAIN vis.made}

\* A selected load (or end of a distributed load) whose factored value is 0.
ZeroSelected ==
    LET zero(v, l) == l.case \in DOMAIN vis.load_factors
                      /\ Eq(Mul(v, vis.load_factors[l.case]), I(0))
    IN  \/ \E l \in Elements(vis.model.NodeLoads) \cup Elements(vis.model.PtLoads) : zero(l.P, l)
        \/ \E l \in Elements(vis.model.DistLoads) : zero(l.w1, l) \/ zero(l.w2, l)

\* C27: __RenderLoads completes without error for every nodal load, member
\* point load and member distributed load of the selected combination or
\* case, one with a zero factored value (zero magnitude or zero factor) or
\* with zero intensity at one end included: the sign of each displayed load
\* is +1 or -1 and no division by zero occurs.
C27_RenderLoadsCompletes ==
    vis.fn = "__RenderLoads" =>
        /\ vis.pc # "raised"
        /\ \A d \in Shown : d.sign \in {I(1), I(-1)}

\* What does hold of __RenderLoads: the sign of a displayed load is +1 or
\* -1, and the function raises only ZeroDivisionError and only when a
\* selected load has a zero factored value.
RenderLoadsRaisesOnZeroOnly ==
    vis.fn = "__RenderLoads" =>
        /\ \A d \in Shown : d.sign \in {I(1), I(-1)}
        /\ vis.pc = "raised" => vis.exc = "ZeroDivisionError" /\ ZeroSelected
        /\ vis.pc = "done" => ~ZeroSelected

\* The loads of a list that belong to the case of the call.
OfCase(loads) == SelectSeq(loads, LAMBDA l : l.case = vis.case)

\* The largest absolute value among numbers, 0 when there is none.
Bounds(S, m) == /\ Le(I(0), m)
                /\ \A v \in S : Le(PyAbs(v), m)
                /\ Eq(m, I(0)) \/ \E v \in S : Eq(PyAbs(v), m)

\* C28: __MaxLoads returns non-negative maxima; the absolute factored value
\* of every load __RenderLoads displays is at most the maximum of its kind,
\* so an arrow is at most 5*text_height long and a moment has a radius of at
\* most 2.5*text_height; with a case, both functions select exactly the loads
\* of that case, with factor 1.
C28_LoadNormalisation ==
    (vis.fn = "__RenderLoads" /\ vis.pc # "__MaxLoads") =>
        /\ \A k \in 1..3 : Le(I(0), vis.max[k])
        /\ \A d \in Shown :
               /\ d.class = "VisPtLoad" =>
                      /\ Le(PyAbs(d.value), vis.max[1])
                      /\ Le(PyAbs(d.length), I(5 * vis.text_height))
               /\ d.class = "VisMoment" =>
                      /\ Le(PyAbs(d.value), vis.max[2])
                      /\ Le(I(0), d.length)
                      /\ Le(Mul(d.length, I(2)), I(5 * vis.text_height))
               /\ d.class = "VisDistLoad" =>
                      /\ Le(PyAbs(d.value), vis.max[3]) /\ Le(PyAbs(d.value2), vis.max[3])
                      /\ Le(PyAbs(d.length), I(5 * vis.text_height))
                      /\ Le(PyAbs(d.length2), I(5 * vis.text_height))
        /\ vis.case # PyNone =>
               /\ \A d \in Shown :
                      /\ d.load.case = vis.case
                      /\ d.value = IF d.class = "VisDistLoad" THEN d.load.w1 ELSE d.load.P
                      /\ d.class = "VisDistLoad" => d.value2 = d.load.w2
               /\ vis.pc = "done" =>
                      [n \in DOMAIN vis.made |-> vis.made[n].load]
                          = OfCase(vis.model.NodeLoads) \o OfCase(vis.model.PtLoads)
                                \o OfCase(vis.model.DistLoads)
               /\ Bounds({l.P : l \in {m \in Elements(OfCase(vis.model.NodeLoads)) :
                                           m.Direction = "FX"}}
                             \cup {l.P : l \in {m \in Elements(OfCase(vis.model.PtLoads)) :
                                                    m.Direction = "Fy"}}, vis.max[1])
               /\ Bounds({l.P : l \in {m \in Elements(OfCase(vis.model.NodeLoads)) :
                                           m.Direction = "MZ"}}
                             \cup {l.P : l \in {m \in Elements(OfCase(vis.model.PtLoads)) :
                                                    m.Direction = "Mz"}}, vis.max[2])
               /\ Bounds({l.w1 : l \in Elements(OfCase(vis.model.DistLoads))}
                             \cup {l.w2 : l \in Elements(OfCase(vis.model.DistLoads))},
                         vis.max[3])

\* C28 witness: __RenderLoads has displayed the loads of a combination, the
\* factor 2 applied: an arrow of the full length 5*text_height and a shorter
\* one, a moment and a distributed load.
C28_Witness ==
    /\ vis.fn = "__RenderLoads" /\ vis.pc = "done" /\ vis.case = PyNone
    /\ \E d \in Shown : d.class = "VisPtLoad" /\ Eq(PyAbs(d.length), I(5 * vis.text_height))
                        /\ d.value # d.load.P
    /\ \E d \in Shown : d.class = "VisPtLoad" /\ Lt(PyAbs(d.length), I(5 * vis.text_height))
    /\ \E d \in Shown : d.class = "VisMoment"
    /\ \E d \in Shown : d.class = "VisDistLoad" /\ d.length # d.length2

\* The line has a positive length and both display lengths are non-zero.
ProperDistLoad ==
    /\ vis.position1 # vis.position2
    /\ ~Eq(vis.length1, I(0)) /\ ~Eq(vis.length2, I(0))

\* What a VisDistLoad that has been constructed consists of: num_steps + 1
\* arrows, the first at position1 with length1, the last at position2 with
\* length2, the lengths in between interpolated linearly, and the label
\* actors of the first and the last arrow.
ArrowsInterpolate ==
    /\ vis.num_steps >= 1
    /\ Len(vis.ptLoads) = vis.num_steps + 1
    /\ vis.ptLoads[1].position = vis.position1 /\ vis.ptLoads[1].length = vis.length1
    /\ vis.ptLoads[Len(vis.ptLoads)].position = vis.position2
    /\ vis.ptLoads[Len(vis.ptLoads)].length = vis.length2
    /\ \A n \in 1..Len(vis.ptLoads) :
           Eq(Mul(Sub(vis.ptLoads[n].length, vis.length1), I(vis.num_steps)),
              Mul(Sub(vis.length2, vis.length1), I(n - 1)))
    /\ vis.lblActors = <<<<1, vis.label_text1>>, <<vis.num_steps + 1, vis.label_text2>>>>

\* C29: the construction of a VisDistLoad succeeds for every distributed load
\* of positive length with non-zero display lengths: num_steps is at least 1,
\* exactly num_steps + 1 arrows are created, the first at position1 with
\* length1 and the last at position2 with length2, the lengths in between
\* interpolated linearly, and only the first and last arrows supply the two
\* label actors.
C29_VisDistLoadSucceeds ==
    (vis.fn = "VisDistLoad" /\ ProperDistLoad) =>
        /\ vis.pc # "raised"
        /\ vis.pc \in {"ptLoads", "actor", "done"} => vis.num_steps >= 1
        /\ vis.pc = "done" => ArrowsInterpolate

\* What does hold of VisDistLoad: a construction that returns has built the
\* arrows as described, and on a proper load the only exception is
\* ZeroDivisionError, raised when the step count rounds to 0 or when an
\* arrow between ends of opposite signs has length 0.
VisDistLoadIfReturns ==
    vis.fn = "VisDistLoad" =>
        /\ vis.pc = "done" => ArrowsInterpolate
        /\ (vis.pc = "raised" /\ ProperDistLoad) =>
               /\ vis.exc = "ZeroDivisionError"
               /\ \/ vis.num_steps = 0
                  \/ Sign(vis.length1) # Sign(vis.length2)

\* A VisDistLoad has been constructed with three or more arrows of different
\* lengths.
VisDistLoadBuilt ==
    /\ vis.fn = "VisDistLoad" /\ vis.pc = "done"
    /\ vis.num_steps >= 2
    /\ vis.length1 # vis.length2

-----------------------------------------------------------------------------
(* What holds of the evaluators and extrema queries once a client has bound *)
(* L to x2 - x1: the properties C1 to C6 restricted to such segments.       *)

ShearEnvelopeIfLengthBound == LengthBound(seg) => C1_ShearEnvelope

MomentExtremaIfLengthBound == LengthBound(seg) => C2_MomentExtrema

AxialExtremaIfLengthBound == LengthBound(seg) => C3_AxialExtrema

MaxAtLeastMinIfLengthBound == LengthBound(seg) => C4_MaxAtLeastMin

StartValuesIfLengthBound == LengthBound(seg) => C5_StartValues

ClosedFormsIfLengthBound == LengthBound(seg) => C6_ClosedForms

DegenerateBranchesIfLengthBound == LengthBound(seg) => C13_DegenerateBranches

UniformLoadIfLengthBound == LengthBound(seg) => C14_UniformLoad

\* With the worked example of the specification (V1 = 5, M1 = 0, L = 10:
\* Moment(10) = 50, MaxMoment() = 50, MinMoment() = 0), L bound.
ZeroLoadIfLengthBound ==
    /\ LengthBound(seg) => C15_ZeroLoad
    /\ Moment(WithL(ZeroLoadExample, "derived"), I(10)) = I(50)
    /\ MaxMoment(WithL(ZeroLoadExample, "derived")) = I(50)
    /\ MinMoment(WithL(ZeroLoadExample, "derived")) = I(0)

\* With the worked example of the specification (w1 = 2, w2 = 8, L = 4,
\* V1 = 0: Shear(0) = 0, Shear(4) = -20), L bound.
TrapezoidEndShearIfLengthBound ==
    /\ LengthBound(seg) => C16_TrapezoidEndShear
    /\ Shear(WithL(TrapezoidExample, "derived"), I(0)) = I(0)
    /\ Shear(WithL(TrapezoidExample, "derived"), I(4)) = I(-20)

DerivativeConsistencyIfLengthBound == LengthBound(seg) => C17_DerivativeConsistency

ShearCandidateSetIfLengthBound == LengthBound(seg) => C22_ShearCandidateSet

MomentCandidateSetIfLengthBound == LengthBound(seg) => C23_MomentCandidateSet

====
